---- MODULE Spec2Model ----
(***************************************************************************)
(* Model of the iroh node supervisor (iroh/src/node/builder.rs): the       *)
(* Builder, Builder::spawn / spawn_inner, the supervisor event loop        *)
(* Builder::run, handle_connection, the shutdown sequence and the GC loop  *)
(* Builder::gc_loop.                                                       *)
(***************************************************************************)
EXTENDS Integers, Sequences, FiniteSets, TLC

(* ----------------------------- bounds ---------------------------------- *)
\* number of builder method calls made before spawn
MaxBuilderCalls == 2
\* number of inbound peer connections
MaxConns == 2
\* number of callers of Node::shutdown
MaxShutdownCalls == 2
\* number of GC cycles started (gc_start calls)
MaxGcCycles == 2
\* number of content hashes in the blob store
MaxHashes == 2
\* number of results the two RPC accepts yield
MaxRpcRequests == 2
\* number of results that wait at the external RPC accept at one time
MaxRpcBacklog == 2
\* number of address sets the endpoint reports, one after the other
MaxEndpointUpdates == 2
\* number of bytes in a chunk of a blob
ChunkLen == 2
\* number of named blobs in the collection a provider holds
MaxFiles == 2
\* number of times the process is started again after a shutdown
MaxRestarts == 1
\* number of calls of pkarr State::upsert
MaxUpserts == 3
\* number of signed packets of one node, numbered from the oldest to the most recent
MaxPackets == 2

(* ------------------------- program constants --------------------------- *)
BLOBS_ALPN == "iroh-blobs"
GOSSIP_ALPN == "iroh-gossip"
DOCS_ALPN == "iroh-docs"
EXAMPLE_ALPN == "example-proto/0"
\* builder.rs:46
PROTOCOLS == <<BLOBS_ALPN, GOSSIP_ALPN, DOCS_ALPN>>

Alpns == {BLOBS_ALPN, GOSSIP_ALPN, DOCS_ALPN, EXAMPLE_ALPN}
\* the ALPNs a caller of Builder::accept registers a handler of its own under
UserAlpns == {EXAMPLE_ALPN, BLOBS_ALPN, GOSSIP_ALPN}

\* A handler is <<type tag, serial>>; every registration yields its own handler.
None == <<"None", 0>>
BlobsHandler == <<"BlobsProtocol", 0>>
GossipHandler == <<"Gossip", 0>>
DocsHandler == <<"DocsEngine", 0>>
UserHandler(n) == <<"User", n>>

Hashes == 1..MaxHashes
ConnIds == 1..MaxConns
CallerIds == 1..MaxShutdownCalls
\* identities of GC loop tasks in the node's task set
GcTaskIds == {1, 2}

(* --------------------- ProtocolMap (the registry) ---------------------- *)
\* ProtocolMap::insert: a map keyed by ALPN; a duplicate key replaces the
\* handler stored under it.
MapInsert(m, alpn, h) ==
    IF \E k \in 1..Len(m) : m[k].alpn = alpn
    THEN [k \in 1..Len(m) |-> IF m[k].alpn = alpn THEN [alpn |-> alpn, handler |-> h] ELSE m[k]]
    ELSE Append(m, [alpn |-> alpn, handler |-> h])

\* ProtocolMap::get_any: lookup by ALPN
GetAny(m, alpn) ==
    IF \E k \in 1..Len(m) : m[k].alpn = alpn
    THEN (CHOOSE e \in {m[k] : k \in 1..Len(m)} : e.alpn = alpn).handler
    ELSE None

\* ProtocolMap::get::<P>: lookup by ALPN, then downcast to the type tag
Get(m, alpn, tag) ==
    IF GetAny(m, alpn)[1] = tag THEN GetAny(m, alpn) ELSE None

\* protocols.read().values().nth(i), i counted from 0
ValuesNth(m, i) ==
    IF i + 1 <= Len(m) THEN m[i + 1].handler ELSE None

MapKeys(m) == {m[k].alpn : k \in 1..Len(m)}

(* ------------------------------ state ---------------------------------- *)
VARIABLES
    builder,       \* the Builder value (its fields)
    spawn,         \* position of Builder::spawn / spawn_inner
    endpoint,      \* the Endpoint: state and advertised ALPN list
    protocols,     \* the node's ProtocolMap
    cancel_token,  \* NodeInner.cancel_token
    run,           \* the supervisor task Builder::run
    conns,         \* inbound peer connections
    callers,       \* callers of Node::shutdown
    db,            \* the blob store: lifecycle and content
    gc,            \* the GC loop tasks
    fanout,        \* the task that forwards endpoint updates to gossip
    client,        \* the get requests of the peers that have dialed the blobs ALPN
    disk,          \* the root directory of persist: secret-key file and blob store
    pkarr,         \* the test servers' pkarr_dns_state::State and the waiter of on_node
    hist           \* history of what was invoked, for the properties

vars == <<builder, spawn, endpoint, protocols, cancel_token, run, conns, callers, db, gc,
          fanout, client, disk, pkarr, hist>>

\* Builder::default / Builder::with_db_and_store
BuilderDefault ==
    [ storage |-> "Mem",
      bind_port |-> "None",
      rpc_endpoint |-> "Dummy",
      gc_policy |-> "Disabled",
      docs_store |-> "Memory",
      protocols |-> <<>>,
      secret_key |-> 1,
      gc_done_callback |-> FALSE,
      calls |-> 0,
      accepted |-> 0 ]

\* the Builder after spawn(mut self) has consumed it
BuilderMoved ==
    [ storage |-> "Moved",
      bind_port |-> "Moved",
      rpc_endpoint |-> "Moved",
      gc_policy |-> "Moved",
      docs_store |-> "Moved",
      protocols |-> <<>>,
      secret_key |-> 0,
      gc_done_callback |-> FALSE,
      calls |-> 0,
      accepted |-> 0 ]

\* a GC loop task: its position, its `live` set, its `ds` argument and
\* whether its `done_cb` argument is Some
GcIdle == [pc |-> "none", live |-> {}, ds |-> FALSE, done_cb |-> FALSE]

\* no endpoint is bound yet
EndpointUnbound == [state |-> "unbound", alpns |-> <<>>, eps |-> 0, node_id |-> 0]

\* Builder::default: an in-memory blob store, here with MaxHashes blobs
MemStore(content) == [state |-> "open", kind |-> "mem", blobs |-> Hashes, content |-> content]

\* a peer that has made no get request
ClientIdle ==
    [pc |-> "idle", kind |-> "none", hash |-> <<>>, cur |-> <<>>, size |-> 0,
     buf |-> <<>>, k |-> 0, coll |-> <<>>, children |-> <<>>, res |-> "none"]

\* the get request of peer c
Client(c) == IF c \in DOMAIN client THEN client[c] ELSE ClientIdle

\* the node before Builder::spawn, but for its blob store and the history
InitNode ==
    /\ pkarr = <<>>
    /\ builder = BuilderDefault
    /\ spawn = "building"
    /\ endpoint = EndpointUnbound
    /\ protocols = <<>>
    /\ cancel_token = FALSE
    /\ run = [pc |-> "none", i |-> 0, conn |-> 0, rpc |-> "None", rpc_ready |-> 0,
              disabled |-> {}, guard |-> FALSE, eps |-> 0]
    /\ conns = [c \in ConnIds |-> [st |-> "none", alpn |-> "", accepts |-> <<>>]]
    /\ callers = [k \in CallerIds |-> "idle"]
    /\ gc = [g \in GcTaskIds |-> GcIdle]
    /\ fanout = [pc |-> "none", seen |-> 0]
    /\ client = <<>>
    /\ disk = [secret_key |-> 0, blobs |-> {}]

HistInit ==
              [ registered |-> <<>>,
                keys |-> 1,
                nodes |-> <<>>,
                atShutdown |-> <<>>,
                restarts |-> 0,
                file_opts |-> <<>>,
                atSpawn |-> <<>>,
                factories |-> <<>>,
                policy |-> "none",
                failure |-> "none",
                exit |-> "none",
                delivered |-> <<>>,
                rpc_handled |-> 0,
                rpc_errors |-> 0,
                internal_rpc_errors |-> 0,
                log |-> <<>>,
                liveAtMark |-> {},
                removed |-> {},
                fatal |-> "none",
                refused |-> FALSE,
                cycles |-> 0,
                completed |-> 0,
                done_cb |-> 0,
                aborted |-> 0 ]

Init ==
    /\ InitNode
    /\ db = MemStore({})
    /\ hist = HistInit

(* ----------------------------- Builder --------------------------------- *)
Building == spawn = "building" /\ builder.calls < MaxBuilderCalls

\* a registration put in front of the earlier ones
BuilderPushFront(b, alpn, h) ==
    [b EXCEPT !.protocols = <<[alpn |-> alpn, handler |-> h]>> \o b.protocols]

\* Builder::accept: push (alpn, factory) onto self.protocols
BuilderPush(b, alpn, h) ==
    [b EXCEPT !.protocols = Append(b.protocols, [alpn |-> alpn, handler |-> h])]

\* the protocols field of the Builder that persist, rpc_endpoint and
\* enable_rpc construct: `protocols: Default::default()`
RebuiltProtocols(b) == <<>>

Accept(alpn) ==
    /\ Building
    /\ LET h == UserHandler(builder.accepted + 1) IN
       /\ builder' = [BuilderPush(builder, alpn, h) EXCEPT
                        !.calls = @ + 1, !.accepted = @ + 1]
       /\ hist' = [hist EXCEPT !.registered = Append(@, [alpn |-> alpn, handler |-> h])]
    /\ UNCHANGED <<spawn, endpoint, protocols, cancel_token, run, conns, callers, db, gc, fanout, client, disk, pkarr>>

\* load_secret_key(path): the key of the file, or a key generated and
\* written to the file if there is none
LoadSecretKey(dk, fresh) == IF dk.secret_key = 0 THEN fresh ELSE dk.secret_key

\* fs::Store::load(blob_dir): the store of the blobs the directory holds
StoreLoad(dk) == [state |-> "open", kind |-> "fs", blobs |-> dk.blobs, content |-> {}]

\* a persist that leaves the builder the key it was constructed with
PersistKeyKept(b, loaded) == b.secret_key

\* persist, lines 231-237: the secret_key of the new Builder is the loaded one
PersistKey(b, loaded) == loaded

\* Builder::persist
Persist ==
    /\ Building
    /\ LET loaded == LoadSecretKey(disk, hist.keys + 1) IN
          /\ builder' = [builder EXCEPT
                           !.storage = "Persistent",
                           !.docs_store = "Persistent",
                           !.protocols = RebuiltProtocols(builder),
                           !.secret_key = PersistKey(builder, loaded),
                           !.calls = @ + 1]
          /\ disk' = [disk EXCEPT !.secret_key = loaded]
          /\ hist' = [hist EXCEPT !.keys = IF disk.secret_key = 0 THEN @ + 1 ELSE @]
    /\ db' = StoreLoad(disk)
    /\ UNCHANGED <<spawn, endpoint, protocols, cancel_token, run, conns, callers, gc, fanout, client, pkarr>>

\* Builder::rpc_endpoint
RpcEndpoint ==
    /\ Building
    /\ builder' = [builder EXCEPT
                     !.rpc_endpoint = "Custom",
                     !.protocols = RebuiltProtocols(builder),
                     !.calls = @ + 1]
    /\ UNCHANGED <<spawn, endpoint, protocols, cancel_token, run, conns, callers, db, gc, hist, fanout, client, disk, pkarr>>

\* Builder::enable_rpc
EnableRpc ==
    /\ Building
    /\ builder' = [builder EXCEPT
                     !.rpc_endpoint = "Quinn",
                     !.protocols = RebuiltProtocols(builder),
                     !.calls = @ + 1]
    /\ UNCHANGED <<spawn, endpoint, protocols, cancel_token, run, conns, callers, db, gc, hist, fanout, client, disk, pkarr>>

\* Builder::gc_policy
GcPolicy(p) ==
    /\ Building
    /\ builder' = [builder EXCEPT !.gc_policy = p, !.calls = @ + 1]
    /\ UNCHANGED <<spawn, endpoint, protocols, cancel_token, run, conns, callers, db, gc, hist, fanout, client, disk, pkarr>>

\* Builder::register_gc_done_cb, lines 391-396
RegisterGcDoneCb ==
    /\ Building
    /\ builder' = [builder EXCEPT !.gc_done_callback = TRUE, !.calls = @ + 1]
    /\ UNCHANGED <<spawn, endpoint, protocols, cancel_token, run, conns, callers, db, gc, hist, fanout, client, disk, pkarr>>

\* Builder::disable_docs
DisableDocs ==
    /\ Building
    /\ builder' = [builder EXCEPT !.docs_store = "None", !.calls = @ + 1]
    /\ UNCHANGED <<spawn, endpoint, protocols, cancel_token, run, conns, callers, db, gc, hist, fanout, client, disk, pkarr>>

\* Builder::bind_port
BindPort ==
    /\ Building
    /\ builder' = [builder EXCEPT !.bind_port = "Some", !.calls = @ + 1]
    /\ UNCHANGED <<spawn, endpoint, protocols, cancel_token, run, conns, callers, db, gc, hist, fanout, client, disk, pkarr>>

(* --------------------- Builder::spawn / spawn_inner -------------------- *)
\* a spawn that registers the document protocol ahead of gossip
WithCoreProtocolsDocsFirst(b) ==
    LET b1 == BuilderPush(b, BLOBS_ALPN, BlobsHandler)
        b2 == IF b.docs_store # "None" THEN BuilderPush(b1, DOCS_ALPN, DocsHandler) ELSE b1
    IN  BuilderPush(b2, GOSSIP_ALPN, GossipHandler)

\* Builder::spawn, lines 414-470: the core protocols are registered with
\* self.accept, i.e. pushed behind whatever self.protocols holds already.
WithCoreProtocols(b) ==
    LET b1 == BuilderPush(b, BLOBS_ALPN, BlobsHandler)
        b2 == BuilderPush(b1, GOSSIP_ALPN, GossipHandler)
    IN  IF b.docs_store # "None" THEN BuilderPush(b2, DOCS_ALPN, DocsHandler) ELSE b2

\* spawn_inner, lines 506-510: PROTOCOLS chained with the ALPNs of self.protocols
EndpointAlpns(b) ==
    PROTOCOLS \o [k \in 1..Len(b.protocols) |-> b.protocols[k].alpn]

\* a failed spawn that leaves the blob store as it is
DbShutdownSkipped(d) == d

\* the Err arm of Builder::spawn: blobs_store.shutdown().await
DbShutdown(d) == [d EXCEPT !.state = "shutdown"]

\* the blobs the shutdown of store d commits to the directory: those of a
\* store loaded from it, none of an in-memory store
Committed(d) == IF d.kind = "fs" THEN d.blobs ELSE {}

\* the directory after a step that may have shut the store down
Flushed(dk, d) ==
    IF d.kind = "fs" /\ d.state = "shutdown" THEN [dk EXCEPT !.blobs = Committed(d)] ELSE dk

\* Builder::spawn up to and including endpoint.bind(bind_port).await.
\* docsOk: Store::persistent(path) opened the document store (line 440, a `?`
\* ahead of the match on spawn_inner); bindOk: the bind succeeded (line 541)
Spawn(docsOk, bindOk) ==
    /\ spawn = "building"
    /\ docsOk \/ builder.docs_store = "Persistent"
    /\ docsOk \/ bindOk
    /\ LET b == WithCoreProtocols(builder) IN
       IF ~docsOk
       THEN /\ builder' = BuilderMoved
            /\ endpoint' = endpoint
            /\ spawn' = "failed"
            /\ db' = db
       ELSE IF bindOk
       THEN /\ builder' = b
            /\ endpoint' = [state |-> "bound", alpns |-> EndpointAlpns(b), eps |-> 0,
                             node_id |-> builder.secret_key]
            /\ spawn' = "factories"
            /\ db' = db
       ELSE /\ builder' = BuilderMoved
            /\ endpoint' = endpoint
            /\ spawn' = "failed"
            /\ db' = DbShutdown(db)
    /\ hist' = [hist EXCEPT !.atSpawn = builder.protocols,
                            !.factories = WithCoreProtocols(builder).protocols,
                            !.policy = builder.gc_policy,
                            !.nodes = IF docsOk /\ bindOk
                                      THEN Append(@, [storage |-> builder.storage,
                                                      node_id |-> builder.secret_key,
                                                      blobs |-> db.blobs])
                                      ELSE @,
                            !.failure = IF ~docsOk THEN "docs_store"
                                        ELSE IF ~bindOk THEN "bind" ELSE "none"]
    /\ disk' = Flushed(disk, db')
    /\ UNCHANGED <<protocols, cancel_token, run, conns, callers, gc, fanout, client, pkarr>>

\* whether the factory of handler h yields a handler, given the registry the
\* Node handle shows it (lines 418-469): blobs cannot fail, docs needs gossip
FactoryOk(h, m, ok) ==
    CASE h = BlobsHandler -> TRUE
      [] h = DocsHandler -> ok /\ Get(m, GOSSIP_ALPN, "Gossip") # None
      [] OTHER -> ok

\* a factory loop that takes the registrations from the back
FactoryTurnLast(ps) == Len(ps)

\* spawn_inner, line 576: `for (alpn, p) in self.protocols` takes the
\* registrations that are left from the front of the Vec
FactoryTurn(ps) == 1

\* spawn_inner, lines 576-579: one turn of `for (alpn, p) in self.protocols`
RunFactory(ok) ==
    /\ spawn = "factories"
    /\ builder.protocols # <<>>
    /\ LET t == FactoryTurn(builder.protocols)
           p == builder.protocols[t] IN
       IF FactoryOk(p.handler, protocols, ok)
       THEN /\ protocols' = MapInsert(protocols, p.alpn, p.handler)
            /\ builder' = [builder EXCEPT !.protocols =
                              SubSeq(@, 1, t - 1) \o SubSeq(@, t + 1, Len(@))]
            /\ UNCHANGED <<spawn, db>>
       ELSE /\ spawn' = "failed"
            /\ builder' = BuilderMoved
            /\ db' = DbShutdown(db)
            /\ UNCHANGED protocols
    /\ hist' = [hist EXCEPT !.failure =
                  IF FactoryOk(builder.protocols[FactoryTurn(builder.protocols)].handler,
                               protocols, ok)
                  THEN @ ELSE "factory"]
    /\ disk' = Flushed(disk, db')
    /\ UNCHANGED <<endpoint, cancel_token, run, conns, callers, gc, fanout, client, pkarr>>

\* a second GC loop spawned next to the first
GcLoopsSpawnedTwice(policy) == IF policy = "Interval" THEN {1, 2} ELSE {}

\* a GC loop spawned whatever the policy
GcLoopsSpawnedAlways(policy) == {1}

\* spawn_inner, lines 592-604: the GC loops spawned for the policy
GcLoopsSpawned(policy) == IF policy = "Interval" THEN {1} ELSE {}

\* a factory loop left before it has run every factory
FactoryLoopDoneAtOnce(b) == TRUE

\* spawn_inner, lines 576-579: `for (alpn, p) in self.protocols` is through
FactoryLoopDone(b) == b.protocols = <<>>

\* spawn_inner, lines 606-618: the fanout task is spawned if a Gossip handler
\* is registered under GOSSIP_ALPN; its stream exists from line 607 on
FanoutSpawned(m) == IF Get(m, GOSSIP_ALPN, "Gossip") # None THEN "running" ELSE "none"

\* spawn_inner, lines 581-618: spawn the supervisor task, the GC loop and
\* the fanout task
SpawnTasks ==
    /\ spawn = "factories"
    /\ FactoryLoopDone(builder)
    /\ run' = [run EXCEPT !.pc = "start", !.rpc = builder.rpc_endpoint]
    /\ gc' = [g \in GcTaskIds |->
                IF g \in GcLoopsSpawned(builder.gc_policy)
                THEN [pc |-> "gc_start", live |-> {},
                      ds |-> Get(protocols, DOCS_ALPN, "DocsEngine") # None,
                      done_cb |-> builder.gc_done_callback]
                ELSE gc[g]]
    /\ fanout' = [fanout EXCEPT !.pc = FanoutSpawned(protocols)]
    /\ hist' = hist
    /\ builder' = BuilderMoved
    /\ spawn' = "waiting"
    /\ UNCHANGED <<endpoint, protocols, cancel_token, conns, callers, db, client, disk, pkarr>>

\* spawn_inner, lines 620-627: the wait for the first endpoint update
WaitEndpoint(ok) ==
    /\ spawn = "waiting"
    /\ IF ok
       THEN spawn' = "returned" /\ db' = db /\ hist' = hist
       ELSE /\ spawn' = "failed"
            /\ db' = DbShutdown(db)
            /\ hist' = [hist EXCEPT !.failure = "endpoint_wait"]
    /\ disk' = Flushed(disk, db')
    /\ UNCHANGED <<builder, endpoint, protocols, cancel_token, run, conns, callers, gc, fanout, client, pkarr>>

(* --------------------------- peers ------------------------------------- *)
\* a peer dials the node's endpoint advertising alpn
PeerConnect(c, alpn) ==
    /\ endpoint.state = "bound"
    /\ conns[c].st = "none"
    /\ \A d \in ConnIds : d < c => conns[d].st # "none"
    /\ conns' = [conns EXCEPT ![c] = [st |-> "incoming", alpn |-> alpn, accepts |-> <<>>]]
    /\ UNCHANGED <<builder, spawn, endpoint, protocols, cancel_token, run, callers, db, gc, hist, fanout, client, disk, pkarr>>

\* a supervisor that enters its loop without the initial update
RunAfterStartSelect(m) == "select"

\* run, lines 654-665: with a Gossip handler under GOSSIP_ALPN the initial
\* update comes before the loop, without one the loop is entered at once
RunAfterStart(m) ==
    IF Get(m, GOSSIP_ALPN, "Gossip") # None THEN "initial_update" ELSE "select"


(* ---------------------- Builder::run (supervisor) ---------------------- *)
\* run, lines 637-662: set-up, up to the initial gossip update
RunStart ==
    /\ run.pc = "start"
    /\ run' = [run EXCEPT !.pc = RunAfterStart(protocols)]
    /\ UNCHANGED <<builder, spawn, endpoint, protocols, cancel_token, conns, callers, db, gc, hist, fanout, client, disk, pkarr>>

\* a call of gossip.update_endpoints by task `by` with address set `eps`
Update(by, eps) == [by |-> by, eps |-> eps]

\* run, lines 658-661: server.local_endpoints().next().await, gossip.update_endpoints,
\* taken without a step of another task in between
InitialUpdate ==
    /\ run.pc = "initial_update"
    /\ run' = [run EXCEPT !.pc = "select"]
    /\ hist' = [hist EXCEPT !.delivered = Append(@, Update("run", endpoint.eps))]
    /\ UNCHANGED <<builder, spawn, endpoint, protocols, cancel_token, conns, callers, db, gc, fanout, client, disk, pkarr>>

\* the endpoint reports a new set of local addresses
EndpointUpdate ==
    /\ endpoint.state = "bound"
    /\ endpoint.eps < MaxEndpointUpdates
    /\ endpoint' = [endpoint EXCEPT !.eps = @ + 1]
    /\ UNCHANGED <<builder, spawn, protocols, cancel_token, run, conns, callers, db, gc, hist, fanout, client, disk, pkarr>>

\* run, line 658: server.local_endpoints().next().await yields the address
\* set that is current
InitialRead ==
    /\ run.pc = "initial_update"
    /\ endpoint.state = "bound"
    /\ endpoint.eps > 0
    /\ run' = [run EXCEPT !.pc = "initial_deliver", !.eps = endpoint.eps]
    /\ UNCHANGED <<builder, spawn, endpoint, protocols, cancel_token, conns, callers, db, gc, hist, fanout, client, disk, pkarr>>

\* run, lines 659-660: gossip.update_endpoints(&local_endpoints)
InitialDeliver ==
    /\ run.pc = "initial_deliver"
    /\ run' = [run EXCEPT !.pc = "select", !.eps = 0]
    /\ hist' = [hist EXCEPT !.delivered = Append(@, Update("run", run.eps))]
    /\ UNCHANGED <<builder, spawn, endpoint, protocols, cancel_token, conns, callers, db, gc, fanout, client, disk, pkarr>>

\* spawn_inner, lines 611-615: the fanout task takes the next item of its
\* stream, the current address set if it has not seen it, and passes it to
\* gossip.update_endpoints
FanoutDeliver ==
    /\ fanout.pc = "running"
    /\ endpoint.state = "bound"
    /\ endpoint.eps > fanout.seen
    /\ fanout' = [fanout EXCEPT !.seen = endpoint.eps]
    /\ hist' = [hist EXCEPT !.delivered = Append(@, Update("fanout", endpoint.eps))]
    /\ UNCHANGED <<builder, spawn, endpoint, protocols, cancel_token, run, conns, callers, db, gc, client, disk, pkarr>>

\* the connection server.accept() yields next: the oldest one waiting
NextIncoming == CHOOSE c \in ConnIds :
    /\ conns[c].st = "incoming"
    /\ \A d \in ConnIds : conns[d].st = "incoming" => c <= d

\* a select that polls its arms without regard to the cancellation arm
LowerArmsPolledAlways(token) == TRUE

\* run, lines 665-667: `biased;` polls the cancellation arm first, so the
\* arms below it are polled only while the token is not tripped
LowerArmsPolled(token) == ~token

\* an accept error that leaves the select loop
AfterAcceptErrorBreak == "close"

\* run, lines 697-699, 708-710, 717-720: an accept error is logged and the
\* loop goes to its next iteration
AfterAcceptError == "select"

\* the results the RPC accepts may still yield
RpcBudget == hist.rpc_handled + hist.rpc_errors + hist.internal_rpc_errors < MaxRpcRequests

\* run, lines 692-701: the external RPC arm; a DummyServerEndpoint's accept
\* is pending for ever
SelectRpc(ok) ==
    /\ run.pc = "select"
    /\ LowerArmsPolled(cancel_token)
    /\ run.rpc \in {"Quinn", "Custom"}
    /\ RpcBudget
    /\ IF ok
       THEN /\ hist' = [hist EXCEPT !.rpc_handled = @ + 1]
            /\ run' = [run EXCEPT !.disabled = {}]
       ELSE /\ hist' = [hist EXCEPT !.rpc_errors = @ + 1]
            /\ run' = [run EXCEPT !.pc = AfterAcceptError, !.disabled = {}]
    /\ UNCHANGED <<builder, spawn, endpoint, protocols, cancel_token, conns, callers, db, gc, fanout, client, disk, pkarr>>

\* run, lines 666 and 692-714: `biased;` polls the arms in the order they are
\* written, so the arms below the external RPC arm are taken only while
\* rpc.accept() is pending
RpcArmPending(r) == r.rpc_ready = 0

\* a client of the external RPC endpoint sends a request, or the endpoint
\* turns up an error: one more result waits at rpc.accept()
RpcArrive ==
    /\ run.pc # "none"
    /\ run.rpc \in {"Quinn", "Custom"}
    /\ run.rpc_ready < MaxRpcBacklog
    /\ run' = [run EXCEPT !.rpc_ready = @ + 1]
    /\ UNCHANGED <<builder, spawn, endpoint, protocols, cancel_token, conns, callers, db, gc, hist, fanout, client, disk, pkarr>>

\* run, lines 692-701: the external RPC arm takes a result that waits at
\* rpc.accept(): handle_rpc_request for a request, a log line for an error
SelectRpcReady(ok) ==
    /\ run.pc = "select"
    /\ LowerArmsPolled(cancel_token)
    /\ ~RpcArmPending(run)
    /\ run' = [run EXCEPT !.rpc_ready = @ - 1,
                          !.pc = IF ok THEN "select" ELSE AfterAcceptError,
                          !.disabled = {}]
    /\ UNCHANGED <<builder, spawn, endpoint, protocols, cancel_token, conns, callers, db, gc, hist, fanout, client, disk, pkarr>>

\* run, lines 703-712: the internal RPC arm
SelectInternalRpc(ok) ==
    /\ run.pc = "select"
    /\ LowerArmsPolled(cancel_token)
    /\ RpcArmPending(run)
    /\ RpcBudget
    /\ IF ok
       THEN /\ hist' = [hist EXCEPT !.rpc_handled = @ + 1]
            /\ run' = [run EXCEPT !.disabled = {}]
       ELSE /\ hist' = [hist EXCEPT !.internal_rpc_errors = @ + 1]
            /\ run' = [run EXCEPT !.pc = AfterAcceptError, !.disabled = {}]
    /\ UNCHANGED <<builder, spawn, endpoint, protocols, cancel_token, conns, callers, db, gc, fanout, client, disk, pkarr>>

\* run, line 714: the accept arm of the biased select
SelectAccept ==
    /\ run.pc = "select"
    /\ LowerArmsPolled(cancel_token)
    /\ RpcArmPending(run)
    /\ endpoint.state = "bound"
    /\ \E c \in ConnIds : conns[c].st = "incoming"
    /\ run' = [run EXCEPT !.pc = "alpn", !.conn = NextIncoming]
    /\ conns' = [conns EXCEPT ![NextIncoming].st = "connecting"]
    /\ UNCHANGED <<builder, spawn, endpoint, protocols, cancel_token, callers, db, gc, hist, fanout, client, disk, pkarr>>

\* Endpoint::accept: the endpoint is closed through another handle to it, so
\* its accept stream ends
AcceptStreamEnds ==
    /\ endpoint.state = "bound"
    /\ run.pc \in {"select", "alpn"}
    /\ endpoint' = [endpoint EXCEPT !.state = "closed"]
    /\ UNCHANGED <<builder, spawn, protocols, cancel_token, run, conns, callers, db, gc, hist, fanout, client, disk, pkarr>>

\* a select whose only arm is the accept arm
SelectArmsAcceptOnly == {"accept"}

\* run, lines 667, 692, 703, 714: the arms of the select
SelectArms == {"cancel", "rpc", "internal_rpc", "accept"}

\* run, lines 714 and 729: server.accept() yields None, which the pattern
\* `Some(mut connecting)` does not match: the arm is disabled for this select;
\* `else => break` is taken once every arm is disabled, otherwise the select
\* goes on waiting for its other arms
SelectAcceptNone ==
    /\ run.pc = "select"
    /\ LowerArmsPolled(cancel_token)
    /\ RpcArmPending(run)
    /\ endpoint.state = "closed"
    /\ "accept" \notin run.disabled
    /\ LET disabled == run.disabled \cup {"accept"} IN
       IF SelectArms \subseteq disabled
       THEN /\ run' = [run EXCEPT !.pc = "close", !.disabled = {}]
            /\ hist' = [hist EXCEPT !.exit = "else"]
       ELSE /\ run' = [run EXCEPT !.disabled = disabled]
            /\ hist' = hist
    /\ UNCHANGED <<builder, spawn, endpoint, protocols, cancel_token, conns, callers, db, gc, fanout, client, disk, pkarr>>

\* elements of a sequence
Range(s) == {s[k] : k \in 1..Len(s)}

\* a supervisor that waits for the handler of the connection it accepted
AfterSpawnInline == "handling"

\* run, lines 721-727: tokio::task::spawn returns at once; the handler runs
\* in a task of its own and the supervisor goes to the next turn of its loop
AfterSpawn == "select"

\* run, lines 715-727: connecting.alpn().await, then spawn the dispatch task
AlpnRead(ok) ==
    /\ run.pc = "alpn"
    /\ LET c == run.conn IN
       IF ok /\ conns[c].alpn \in Range(endpoint.alpns)
       THEN /\ conns' = [conns EXCEPT ![c].st = "spawned"]
            /\ run' = [run EXCEPT !.pc = AfterSpawn, !.conn = 0]
       ELSE /\ conns' = [conns EXCEPT ![c].st = "invalid_handshake"]
            /\ run' = [run EXCEPT !.pc = AfterAcceptError, !.conn = 0]
    /\ UNCHANGED <<builder, spawn, endpoint, protocols, cancel_token, callers, db, gc, hist, fanout, client, disk, pkarr>>

\* a dispatch that ignores the ALPN and takes the first handler of the map
DispatchFirst(m, alpn) == ValuesNth(m, 0)

\* a dispatch that hands a connection with an unknown ALPN to the blobs handler
DispatchOrBlobs(m, alpn) ==
    IF GetAny(m, alpn) # None THEN GetAny(m, alpn) ELSE GetAny(m, BLOBS_ALPN)

\* handle_connection, line 845: the handler a connection is dispatched to
Dispatch(m, alpn) == GetAny(m, alpn)

\* handle_connection, lines 840-852
HandleConnection(c) ==
    /\ conns[c].st = "spawned"
    /\ LET protocol == Dispatch(protocols, conns[c].alpn) IN
       conns' = [conns EXCEPT ![c] =
                   IF protocol # None
                   THEN [@ EXCEPT !.st = "accepting", !.accepts = Append(@, protocol)]
                   ELSE [@ EXCEPT !.st = "unsupported"]]
    /\ UNCHANGED <<builder, spawn, endpoint, protocols, cancel_token, run, callers, db, gc, hist, fanout, client, disk, pkarr>>

\* a handler error that is propagated into the supervisor and ends its loop
RunAfterAcceptBreak(r, ok) == IF ok THEN r ELSE [r EXCEPT !.pc = "close"]

\* run, lines 723-727: the result of handle_connection stays in the spawned
\* task, which logs an error; the supervisor is not told
RunAfterAccept(r, ok) == r

\* handle_connection, line 847 and run, lines 724-726: the handler's accept returns
AcceptReturn(c, ok) ==
    /\ conns[c].st = "accepting"
    /\ conns' = [conns EXCEPT ![c].st = IF ok THEN "finished" ELSE "handler_error"]
    /\ run' = RunAfterAccept(run, ok)
    /\ UNCHANGED <<builder, spawn, endpoint, protocols, cancel_token, callers, db, gc, hist, fanout, client, disk, pkarr>>

(* ------------------------------ shutdown ------------------------------- *)
Event(ev, h) == [ev |-> ev, h |-> h]

\* run, lines 667-669: the cancellation arm; db.shutdown() is called
SelectCancelled ==
    /\ run.pc = "select"
    /\ cancel_token
    /\ run' = [run EXCEPT !.pc = "db_shutdown", !.disabled = {}]
    /\ hist' = [hist EXCEPT !.log = Append(@, Event("db_shutdown", None)),
                            !.exit = "cancel"]
    /\ UNCHANGED <<builder, spawn, endpoint, protocols, cancel_token, conns, callers, db, gc, fanout, client, disk, pkarr>>

\* run, lines 669-674: db.shutdown().await returns; let mut i = 0
DbShutdownReturn ==
    /\ run.pc = "db_shutdown"
    /\ db' = DbShutdown(db)
    /\ run' = [run EXCEPT !.pc = "protocols", !.i = 0]
    /\ hist' = [hist EXCEPT !.log = Append(@, Event("db_shutdown_done", None)),
                            !.atShutdown = Append(@, Committed(db))]
    /\ disk' = Flushed(disk, db')
    /\ UNCHANGED <<builder, spawn, endpoint, protocols, cancel_token, conns, callers, gc, fanout, client, pkarr>>

\* a shutdown loop that walks the registry from its end
ShutdownNthReversed(m, i) == ValuesNth(m, Len(m) - 1 - i)

\* run, lines 676-683: the handler the shutdown loop takes at index i
ShutdownNth(m, i) == ValuesNth(m, i)

\* a cancellation arm that does not leave the select loop
AfterShutdownPcLoop == "select"

\* run, line 688: `break` leaves the select loop for server.close
AfterShutdownPc == "close"

\* a shutdown loop that takes the handler it shuts down out of the registry
RegistryTaken(m, i) == SubSeq(m, 1, i) \o SubSeq(m, i + 2, Len(m))

\* run, lines 676-683: the registry after the loop cloned its i-th handler
\* under protocols.read(), a read guard
RegistryRead(m, i) == m

\* a read guard that lives on to the end of the loop body
GuardKeptToLoopEnd == TRUE

\* run, lines 676-684: whether the guard of protocols.read() is held when
\* protocol.shutdown() is awaited; the block that takes it ends at line 683
GuardAtAwait == FALSE

\* run, lines 675-684: take the i-th handler and call its shutdown, or break
ProtocolShutdown ==
    /\ run.pc = "protocols"
    /\ LET protocol == ShutdownNth(protocols, run.i) IN
       IF protocol # None
       THEN /\ run' = [run EXCEPT !.pc = "protocol_shutdown", !.guard = GuardAtAwait]
            /\ hist' = [hist EXCEPT !.log = Append(@, Event("shutdown", protocol))]
            /\ protocols' = RegistryRead(protocols, run.i)
       ELSE /\ run' = [run EXCEPT !.pc = AfterShutdownPc]
            /\ hist' = hist
            /\ protocols' = protocols
    /\ UNCHANGED <<builder, spawn, endpoint, cancel_token, conns, callers, db, gc, fanout, client, disk, pkarr>>

\* a shutdown loop that steps over every second handler
ShutdownIndexSkip(i) == i + 2

\* run, line 685: i += 1
ShutdownIndexNext(i) == i + 1

\* run, lines 684-685: protocol.shutdown().await returns
ProtocolShutdownReturn ==
    /\ run.pc = "protocol_shutdown"
    /\ run' = [run EXCEPT !.pc = "protocols", !.i = ShutdownIndexNext(run.i),
                          !.guard = FALSE]
    /\ hist' = [hist EXCEPT !.log =
                  Append(@, Event("shutdown_done", ShutdownNth(protocols, run.i)))]
    /\ UNCHANGED <<builder, spawn, endpoint, protocols, cancel_token, conns, callers, db, gc, fanout, client, disk, pkarr>>

\* run, lines 737-741: server.close(ProviderTerminating)
EndpointClose ==
    /\ run.pc = "close"
    /\ endpoint' = [endpoint EXCEPT !.state = "closed"]
    /\ run' = [run EXCEPT !.pc = "done"]
    /\ hist' = [hist EXCEPT !.log = Append(@, Event("close", None))]
    /\ UNCHANGED <<builder, spawn, protocols, cancel_token, conns, callers, db, gc, fanout, client, disk, pkarr>>

\* Node::shutdown: trip the cancellation token, then await the supervisor task
ShutdownCall(k) ==
    /\ spawn = "returned"
    /\ callers[k] = "idle"
    /\ \A j \in CallerIds : j < k => callers[j] # "idle"
    /\ cancel_token' = TRUE
    /\ callers' = [callers EXCEPT ![k] = "awaiting"]
    /\ UNCHANGED <<builder, spawn, endpoint, protocols, run, conns, db, gc, hist, fanout, client, disk, pkarr>>

\* Node::shutdown returns Ok once the supervisor task has ended
ShutdownReturn(k) ==
    /\ callers[k] = "awaiting"
    /\ run.pc = "done"
    /\ callers' = [callers EXCEPT ![k] = "returned"]
    /\ UNCHANGED <<builder, spawn, endpoint, protocols, cancel_token, run, conns, db, gc, hist, fanout, client, disk, pkarr>>

(* --------------------------- Builder::gc_loop -------------------------- *)
\* gc_loop, lines 753-758: db.gc_start().await; a refusal breaks the loop
GcStart(g, ok) ==
    /\ gc[g].pc = "gc_start"
    /\ hist.cycles < MaxGcCycles
    /\ IF ok
       THEN /\ gc' = [gc EXCEPT ![g].pc = "sleep"]
            /\ hist' = [hist EXCEPT !.cycles = @ + 1, !.liveAtMark = {},
                                    !.removed = {}, !.fatal = "none"]
       ELSE /\ gc' = [gc EXCEPT ![g].pc = "exited"]
            /\ hist' = [hist EXCEPT !.refused = TRUE]
    /\ UNCHANGED <<builder, spawn, endpoint, protocols, cancel_token, run, conns, callers, db, fanout, client, disk, pkarr>>

\* a cycle that starts with the live set of the cycle before
LiveKept(live) == live

\* gc_loop, line 762: live.clear()
LiveClear(live) == {}

\* gc_loop, lines 760-762: the sleep ends; live.clear()
GcSleep(g) ==
    /\ gc[g].pc = "sleep"
    /\ gc' = [gc EXCEPT ![g].pc = "content_hashes", ![g].live = LiveClear(@)]
    /\ UNCHANGED <<builder, spawn, endpoint, protocols, cancel_token, run, conns, callers, db, hist, fanout, client, disk, pkarr>>

\* a fatal mark event that is logged and falls through to the sweep phase
AfterErrorFallThrough(phase) == IF phase = "mark" THEN "sweep" ELSE "gc_start"

\* an error that breaks out of the loop instead of continuing it
AfterErrorBreak(phase) == "exited"

\* gc_loop: where `continue 'outer` leads after an error in a phase
AfterError(phase) == "gc_start"

\* gc_loop, lines 763-785: the contribution of the document subsystem.
\* docs is the set content_hashes() iterates, got the part of it inserted
\* into live; ok says that content_hashes() and every item were Ok.
GcContentHashes(g, docs, got, ok) ==
    /\ gc[g].pc = "content_hashes"
    /\ IF ~gc[g].ds
       THEN /\ docs = {} /\ got = {} /\ ok
            /\ gc' = [gc EXCEPT ![g].pc = "mark"]
            /\ hist' = [hist EXCEPT !.liveAtMark = gc[g].live]
       ELSE /\ got \subseteq docs
            /\ ok => got = docs
            /\ ~ok => got # docs \/ docs = {}
            /\ IF ok
               THEN /\ gc' = [gc EXCEPT ![g].pc = "mark", ![g].live = @ \cup got]
                    /\ hist' = [hist EXCEPT !.liveAtMark = gc[g].live \cup got]
               ELSE /\ gc' = [gc EXCEPT ![g].pc = AfterError("content_hashes"),
                                        ![g].live = @ \cup got]
                    /\ hist' = [hist EXCEPT !.fatal = "content_hashes", !.aborted = @ + 1]
    /\ UNCHANGED <<builder, spawn, endpoint, protocols, cancel_token, run, conns, callers, db, fanout, client, disk, pkarr>>

\* Store::gc_mark: the store adds content it holds reachable from its own
\* roots to the live set; which content that is, is the store's business
StoreMarkable(d, live) == d.blobs \ live

\* Store::gc_sweep: the store removes content that is not in the live set
StoreSweepable(d, live) == d.blobs \ live

\* gc_loop, lines 785-793: an event of the mark stream; the store has marked h
GcMark(g, h) ==
    /\ gc[g].pc = "mark"
    /\ h \in StoreMarkable(db, gc[g].live)
    /\ gc' = [gc EXCEPT ![g].live = @ \cup {h}]
    /\ UNCHANGED <<builder, spawn, endpoint, protocols, cancel_token, run, conns, callers, db, hist, fanout, client, disk, pkarr>>

\* gc_loop, lines 794-797: a GcMarkEvent::Error
GcMarkError(g) ==
    /\ gc[g].pc = "mark"
    /\ gc' = [gc EXCEPT ![g].pc = AfterError("mark")]
    /\ hist' = [hist EXCEPT !.fatal = "mark", !.aborted = @ + 1]
    /\ UNCHANGED <<builder, spawn, endpoint, protocols, cancel_token, run, conns, callers, db, fanout, client, disk, pkarr>>

\* gc_loop, lines 786-802: the mark stream ends; drop(stream)
GcMarkEnd(g) ==
    /\ gc[g].pc = "mark"
    /\ gc' = [gc EXCEPT ![g].pc = "sweep"]
    /\ UNCHANGED <<builder, spawn, endpoint, protocols, cancel_token, run, conns, callers, db, hist, fanout, client, disk, pkarr>>

\* a sweep handed a cleared live set
SweepLiveEmpty(t) == {}

\* gc_loop, line 803: the live set handed to db.gc_sweep
SweepLive(t) == t.live

\* gc_loop, lines 803-811: an event of the sweep stream; the store has removed h
GcSweep(g, h) ==
    /\ gc[g].pc = "sweep"
    /\ h \in StoreSweepable(db, SweepLive(gc[g]))
    /\ db' = [db EXCEPT !.blobs = @ \ {h}]
    /\ hist' = [hist EXCEPT !.removed = @ \cup {h}]
    /\ UNCHANGED <<builder, spawn, endpoint, protocols, cancel_token, run, conns, callers, gc, fanout, client, disk, pkarr>>

\* gc_loop, lines 812-815: a GcSweepEvent::Error
GcSweepError(g) ==
    /\ gc[g].pc = "sweep"
    /\ gc' = [gc EXCEPT ![g].pc = AfterError("sweep")]
    /\ hist' = [hist EXCEPT !.fatal = "sweep", !.aborted = @ + 1]
    /\ UNCHANGED <<builder, spawn, endpoint, protocols, cancel_token, run, conns, callers, db, fanout, client, disk, pkarr>>

\* a callback invoked twice at the end of a cycle
DoneCbTwice(t, n) == IF t.done_cb THEN n + 2 ELSE n

\* gc_loop, lines 817-819: `if let Some(ref cb) = done_cb { cb(); }`; n counts
\* the invocations
DoneCb(t, n) == IF t.done_cb THEN n + 1 ELSE n

\* gc_loop, lines 804-821: the sweep stream ends; done_cb; next turn of 'outer
GcSweepEnd(g) ==
    /\ gc[g].pc = "sweep"
    /\ StoreSweepable(db, SweepLive(gc[g])) = {}
    /\ gc' = [gc EXCEPT ![g].pc = "gc_start"]
    /\ hist' = [hist EXCEPT !.completed = @ + 1, !.done_cb = DoneCb(gc[g], @)]
    /\ UNCHANGED <<builder, spawn, endpoint, protocols, cancel_token, run, conns, callers, db, fanout, client, disk, pkarr>>

(* --------------------------- specifications ---------------------------- *)
BuilderNext ==
    \/ \E a \in UserAlpns : Accept(a)
    \/ Persist
    \/ RpcEndpoint
    \/ EnableRpc
    \/ DisableDocs
    \/ BindPort

SpawnNext ==
    \/ \E docsOk, bindOk \in BOOLEAN : Spawn(docsOk, bindOk)
    \/ \E ok \in BOOLEAN : RunFactory(ok)
    \/ SpawnTasks
    \/ \E ok \in BOOLEAN : WaitEndpoint(ok)

RunNext ==
    \/ RunStart
    \/ InitialUpdate
    \/ SelectCancelled
    \/ DbShutdownReturn
    \/ ProtocolShutdown
    \/ ProtocolShutdownReturn
    \/ EndpointClose

ShutdownNext ==
    \/ \E k \in CallerIds : ShutdownCall(k)
    \/ \E k \in CallerIds : ShutdownReturn(k)

GcNext ==
    \/ \E g \in GcTaskIds, ok \in BOOLEAN : GcStart(g, ok)
    \/ \E g \in GcTaskIds : GcSleep(g)
    \/ \E g \in GcTaskIds, docs \in SUBSET Hashes, got \in SUBSET Hashes, ok \in BOOLEAN :
          GcContentHashes(g, docs, got, ok)
    \/ \E g \in GcTaskIds, h \in Hashes : GcMark(g, h)
    \/ \E g \in GcTaskIds : GcMarkError(g)
    \/ \E g \in GcTaskIds : GcMarkEnd(g)
    \/ \E g \in GcTaskIds, h \in Hashes : GcSweep(g, h)
    \/ \E g \in GcTaskIds : GcSweepError(g)
    \/ \E g \in GcTaskIds : GcSweepEnd(g)

\* the node, its peers and the callers of Node::shutdown, for a caller that
\* registers protocols and may disable docs; GC stays at the default policy
\* and the endpoint reports its first address in time
NodeBuilderNext ==
    \/ \E a \in {EXAMPLE_ALPN, BLOBS_ALPN} : Accept(a)
    \/ DisableDocs

NodeSpawnNext ==
    \/ \E docsOk, bindOk \in BOOLEAN : Spawn(docsOk, bindOk)
    \/ \E ok \in BOOLEAN : RunFactory(ok)
    \/ SpawnTasks
    \/ WaitEndpoint(TRUE)

NodeConnNext ==
    \/ \E c \in ConnIds, a \in {EXAMPLE_ALPN, BLOBS_ALPN, DOCS_ALPN} : PeerConnect(c, a)
    \/ SelectAccept
    \/ \E ok \in BOOLEAN : AlpnRead(ok)
    \/ \E c \in ConnIds : HandleConnection(c)
    \/ \E c \in ConnIds, ok \in BOOLEAN : AcceptReturn(c, ok)

Next == NodeBuilderNext \/ NodeSpawnNext \/ RunNext \/ NodeConnNext \/ ShutdownNext

Spec == Init /\ [][Next]_vars

\* the node with its callers of Node::shutdown and one inbound connection
\* that may be in flight while the shutdown sequence runs
ShutdownConnNext ==
    \/ \E a \in {EXAMPLE_ALPN, BLOBS_ALPN, DOCS_ALPN} : PeerConnect(1, a)
    \/ SelectAccept
    \/ \E ok \in BOOLEAN : AlpnRead(ok)
    \/ HandleConnection(1)
    \/ \E ok \in BOOLEAN : AcceptReturn(1, ok)

NextShutdown ==
    NodeBuilderNext \/ NodeSpawnNext \/ RunNext \/ ShutdownConnNext \/ ShutdownNext

SpecShutdown == Init /\ [][NextShutdown]_vars

\* every builder method before spawn, then the node up to the dispatch of
\* its first inbound connection
FirstConnNext ==
    \/ \E a \in Alpns : PeerConnect(1, a)
    \/ SelectAccept
    \/ \E ok \in BOOLEAN : AlpnRead(ok)
    \/ HandleConnection(1)

NextBuilder ==
    \/ BuilderNext
    \/ \E p \in {"Disabled", "Interval"} : GcPolicy(p)
    \/ SpawnNext
    \/ RunStart
    \/ InitialUpdate
    \/ FirstConnNext

SpecBuilder == Init /\ [][NextBuilder]_vars

\* the node with a GC policy, its GC loop and its shutdown; no peers dial
GcBuilderNext ==
    \/ \E p \in {"Disabled", "Interval"} : GcPolicy(p)
    \/ DisableDocs
    \/ RegisterGcDoneCb

NextGc == GcBuilderNext \/ SpawnNext \/ RunNext \/ ShutdownNext \/ GcNext

SpecGc == Init /\ [][NextGc]_vars

\* the node with its RPC endpoints, its peers and one caller of
\* Node::shutdown; every startup step succeeds
RpcBuilderNext ==
    \/ EnableRpc
    \/ DisableDocs

RpcSpawnNext ==
    \/ Spawn(TRUE, TRUE)
    \/ RunFactory(TRUE)
    \/ SpawnTasks
    \/ WaitEndpoint(TRUE)

RpcNext ==
    \/ \E ok \in BOOLEAN : SelectRpc(ok)
    \/ \E ok \in BOOLEAN : SelectInternalRpc(ok)

RpcConnNext ==
    \/ \E c \in ConnIds, a \in {BLOBS_ALPN, DOCS_ALPN} : PeerConnect(c, a)
    \/ SelectAccept
    \/ \E ok \in BOOLEAN : AlpnRead(ok)
    \/ \E c \in ConnIds : HandleConnection(c)
    \/ \E c \in ConnIds, ok \in BOOLEAN : AcceptReturn(c, ok)

NextRpc ==
    \/ RpcBuilderNext
    \/ RpcSpawnNext
    \/ RunNext
    \/ RpcNext
    \/ RpcConnNext
    \/ ShutdownCall(1)
    \/ ShutdownReturn(1)

SpecRpc == Init /\ [][NextRpc]_vars

\* the supervisor with an external RPC endpoint whose clients send without
\* end, its peers and one caller of Node::shutdown; every startup step
\* succeeds. The supervisor task is scheduled whenever it can take a step;
\* the accept arm is given strong fairness, more than the scheduler promises.
FairSupervisorNext ==
    \/ RunStart
    \/ InitialUpdate
    \/ \E ok \in BOOLEAN : SelectRpcReady(ok)
    \/ SelectAccept
    \/ \E ok \in BOOLEAN : AlpnRead(ok)

FairEnvNext ==
    \/ EnableRpc
    \/ RpcArrive
    \/ \E c \in ConnIds, a \in {BLOBS_ALPN, GOSSIP_ALPN} : PeerConnect(c, a)
    \/ \E c \in ConnIds : HandleConnection(c)
    \/ \E c \in ConnIds : AcceptReturn(c, TRUE)
    \/ ShutdownCall(1)
    \/ ShutdownReturn(1)

NextFair == RpcSpawnNext \/ FairSupervisorNext \/ FairEnvNext \/ RunNext

SpecFair ==
    /\ Init
    /\ [][NextFair]_vars
    /\ WF_vars(RunNext)
    /\ WF_vars(\E ok \in BOOLEAN : SelectRpcReady(ok))
    /\ SF_vars(SelectAccept)
    /\ WF_vars(\E ok \in BOOLEAN : AlpnRead(ok))

\* the same node; only the supervisor task is promised its steps, the return
\* of the store's and the handlers' shutdown among them: no peer is promised
\* to finish its handshake
SpecCancel ==
    /\ Init
    /\ [][NextFair]_vars
    /\ WF_vars(RunNext)

\* the supervisor of a node whose endpoint may be closed under it, with its
\* RPC endpoints, one peer and one caller of Node::shutdown
ExitConnNext ==
    \/ \E a \in {BLOBS_ALPN, DOCS_ALPN} : PeerConnect(1, a)
    \/ SelectAccept
    \/ \E ok \in BOOLEAN : AlpnRead(ok)
    \/ HandleConnection(1)
    \/ AcceptStreamEnds
    \/ SelectAcceptNone

NextExit ==
    \/ RpcBuilderNext
    \/ RpcSpawnNext
    \/ RunNext
    \/ RpcNext
    \/ ExitConnNext
    \/ ShutdownCall(1)
    \/ ShutdownReturn(1)

SpecExit == Init /\ [][NextExit]_vars

\* the node with a gossip handler, its endpoint reporting address sets, the
\* supervisor up to its first selects and the fanout task
GossipSpawnNext ==
    \/ DisableDocs
    \/ Spawn(TRUE, TRUE)
    \/ RunFactory(TRUE)
    \/ SpawnTasks
    \/ (endpoint.eps > 0 /\ WaitEndpoint(TRUE))

GossipNext ==
    \/ EndpointUpdate
    \/ RunStart
    \/ InitialRead
    \/ InitialDeliver
    \/ FanoutDeliver

GossipLoopNext ==
    \/ \E ok \in BOOLEAN : SelectInternalRpc(ok)
    \/ \E c \in ConnIds : PeerConnect(c, BLOBS_ALPN)
    \/ SelectAccept
    \/ \E ok \in BOOLEAN : AlpnRead(ok)

NextGossip == GossipSpawnNext \/ GossipNext \/ GossipLoopNext

SpecGossip == Init /\ [][NextGossip]_vars

(* ------------- blob exchange (tests/provide.rs, iroh-blobs) ------------ *)
Min(a, b) == IF a < b THEN a ELSE b

\* a byte of blob data, a name and a count, kept apart by their tags
Byte(x) == <<"b", x>>
Name(i) == <<"n", i>>
Count(n) == <<"c", n>>

\* blake3::hash: the content hash of a byte string, one hash per content
Blake3(bytes) == <<"blake3", bytes>>

\* transfer_random_data: the content of a blob of n bytes, one per seed
MakeData(seed, n) == [k \in 1..n |-> Byte((seed + k) % 2)]

\* sizes: the empty blob, blobs that end in a partial chunk, a blob of whole chunks
Sizes == {0, ChunkLen - 1, ChunkLen, ChunkLen + 1}

\* transfer_random_data: the file_opts handed to transfer_data for a list of
\* sizes, names as in many_files
FileOpts ==
    UNION {{[k \in 1..n |-> [name |-> Name(k), data |-> MakeData(k, ns[k])]] :
               ns \in [1..n -> Sizes]} : n \in 0..MaxFiles}

\* a complete entry of the blob store
Entry(bytes) == [hash |-> Blake3(bytes), data |-> bytes, complete |-> TRUE]

\* readonly_mem::Store::new(file_opts)
StoreNew(file_opts) == {Entry(file_opts[k].data) : k \in 1..Len(file_opts)}

\* transfer_data, lines 202-215: the (name, blake3(data)) pairs, in the order of file_opts
BlobsOf(file_opts) ==
    [k \in 1..Len(file_opts) |-> [name |-> file_opts[k].name, hash |-> Blake3(file_opts[k].data)]]

\* Collection::from_iter: the entries in the order of the iterator
CollectionFromIter(blobs) == blobs

\* Collection::to_blobs: the bytes of the blob that encodes the ordered
\* (name, hash) pairs: the number of pairs, then name and hash of each
ToBlob(collection) ==
    <<Count(Len(collection))>> \o
    [k \in 1..2 * Len(collection) |->
        IF k % 2 = 1 THEN collection[(k + 1) \div 2].name ELSE collection[k \div 2].hash]

\* Collection::read_fsm_all: the pairs decoded from the bytes of the root blob
FromBlob(bytes) ==
    [k \in 1..((Len(bytes) - 1) \div 2) |-> [name |-> bytes[2 * k], hash |-> bytes[2 * k + 1]]]

\* transfer_data, lines 216-217: the hash of the collection blob
CollectionHash(file_opts) == Blake3(ToBlob(CollectionFromIter(BlobsOf(file_opts))))

\* mdb.insert_many(collection_orig.to_blobs())
InsertMany(store, file_opts) ==
    store \cup {Entry(ToBlob(CollectionFromIter(BlobsOf(file_opts))))}

\* test_not_found: the hash of a blob no store holds
MissingHash == Blake3(MakeData(0, ChunkLen + 2))

\* test_chunk_not_found_1: the hash of the blob an entry is reserved for
ReservedHash == Blake3(MakeData(1, ChunkLen + 2))

\* db.get_or_create(hash, size): an entry reserved for hash, no data written
GetOrCreate(store, hash) ==
    IF \E e \in store : e.hash = hash
    THEN store
    ELSE store \cup {[hash |-> hash, data |-> <<>>, complete |-> FALSE]}

\* the store handed to test_node(db)
TestStore(file_opts, reserved) ==
    IF reserved
    THEN GetOrCreate(InsertMany(StoreNew(file_opts), file_opts), ReservedHash)
    ELSE InsertMany(StoreNew(file_opts), file_opts)

\* the provider of a node built by test_node(db), holding a collection
InitBlobs ==
    /\ InitNode
    /\ \E file_opts \in FileOpts, reserved \in BOOLEAN :
          /\ db = MemStore(TestStore(file_opts, reserved))
          /\ hist = [HistInit EXCEPT !.file_opts = file_opts]

\* a provider that serves an entry as soon as it is reserved
HeldIfReserved(store, hash) == \E e \in store : e.hash = hash

\* the provider holds the data of hash
Held(store, hash) == \E e \in store : e.hash = hash /\ e.complete

DataOf(store, hash) == (CHOOSE e \in store : e.hash = hash).data

\* a provider that sends whole chunks only
ProviderChunkWhole(data, off) ==
    IF off + ChunkLen <= Len(data) THEN SubSeq(data, off + 1, off + ChunkLen) ELSE <<>>

\* the chunk of data the provider sends at offset off; the last one may be partial
ProviderChunk(data, off) == SubSeq(data, off + 1, Min(off + ChunkLen, Len(data)))

\* the get requests of the tests: GetRequest::all(collection_hash), GetRequest::single(hash)
Requests ==
    {[kind |-> "all", hash |-> CollectionHash(hist.file_opts)],
     [kind |-> "single", hash |-> MissingHash],
     [kind |-> "single", hash |-> ReservedHash]}

\* dial and fsm::start: a client connects with the blobs ALPN and sends its request
ClientDial(c, req) ==
    /\ spawn = "returned"
    /\ endpoint.state = "bound"
    /\ callers[1] = "idle"
    /\ conns[c].st = "none"
    /\ \A d \in ConnIds : d < c => conns[d].st # "none"
    /\ conns' = [conns EXCEPT ![c] = [st |-> "incoming", alpn |-> BLOBS_ALPN, accepts |-> <<>>]]
    /\ client' = [d \in DOMAIN client \cup {c} |->
                    IF d = c
                    THEN [ClientIdle EXCEPT !.pc = "connecting", !.kind = req.kind,
                                            !.hash = req.hash]
                    ELSE client[d]]
    /\ UNCHANGED <<builder, spawn, endpoint, protocols, cancel_token, run, callers, db, gc, fanout, hist, disk, pkarr>>

\* the client state when the provider starts to send the blob of hash, or
\* answers that it does not hold it
StartBlob(cl, store, hash, k) ==
    IF Held(store, hash)
    THEN [cl EXCEPT !.pc = "blob", !.cur = hash, !.size = Len(DataOf(store, hash)),
                    !.buf = <<>>, !.k = k]
    ELSE [cl EXCEPT !.pc = "done", !.res = "NotFound"]

\* the blobs handler, accepted for connection c
Serving(c) ==
    /\ conns[c].st = "accepting"
    /\ conns[c].accepts[Len(conns[c].accepts)] = BlobsHandler

\* the blobs handler reads the request and answers for the root blob
BlobsRequest(c) ==
    /\ Serving(c)
    /\ Client(c).pc = "connecting"
    /\ client' = [client EXCEPT ![c] = StartBlob(@, db.content, @.hash, 0)]
    /\ UNCHANGED <<builder, spawn, endpoint, protocols, cancel_token, run, conns, callers, db, gc, fanout, hist, disk, pkarr>>

\* the provider sends the next chunk of the current blob and the client takes it
BlobsChunk(c) ==
    /\ Serving(c)
    /\ Client(c).pc = "blob"
    /\ LET chunk == ProviderChunk(DataOf(db.content, Client(c).cur), Len(Client(c).buf)) IN
          /\ chunk # <<>>
          /\ client' = [client EXCEPT ![c].buf = @ \o chunk]
    /\ UNCHANGED <<builder, spawn, endpoint, protocols, cancel_token, run, conns, callers, db, gc, fanout, hist, disk, pkarr>>

\* the client state after the last chunk of a blob: the bytes are verified
\* against size and hash; the root blob gives the collection, a child is
\* stored under its offset; then the next child is asked for
EndBlob(cl, store) ==
    IF Len(cl.buf) # cl.size \/ Blake3(cl.buf) # cl.cur
    THEN [cl EXCEPT !.pc = "done", !.res = "DecodeError"]
    ELSE LET coll == IF cl.k = 0 THEN FromBlob(cl.buf) ELSE cl.coll
             got == [cl EXCEPT !.coll = coll,
                               !.children = IF cl.k = 0 THEN @ ELSE Append(@, cl.buf),
                               !.buf = <<>>]
         IN  IF cl.kind = "all" /\ cl.k < Len(coll)
             THEN StartBlob(got, store, coll[cl.k + 1].hash, cl.k + 1)
             ELSE [got EXCEPT !.pc = "done", !.res = "Ok"]

\* the provider has sent the current blob to its end
BlobsBlobEnd(c) ==
    /\ Serving(c)
    /\ Client(c).pc = "blob"
    /\ ProviderChunk(DataOf(db.content, Client(c).cur), Len(Client(c).buf)) = <<>>
    /\ client' = [client EXCEPT ![c] = EndBlob(@, db.content)]
    /\ UNCHANGED <<builder, spawn, endpoint, protocols, cancel_token, run, conns, callers, db, gc, fanout, hist, disk, pkarr>>

\* every client that has dialed has its result
ClientsDone ==
    /\ \E c \in ConnIds : Client(c).pc = "done"
    /\ \A c \in ConnIds : Client(c).pc \in {"idle", "done"}

\* the provider serving the blobs connections
BlobsServeNext ==
    \/ \E c \in ConnIds : BlobsRequest(c)
    \/ \E c \in ConnIds : BlobsChunk(c)
    \/ \E c \in ConnIds : BlobsBlobEnd(c)

\* the clients of the tests that make one request after the other
BlobsClientNext ==
    \E c \in ConnIds, req \in Requests :
        /\ \A d \in ConnIds : Client(d).pc \in {"idle", "done"}
        /\ ClientDial(c, req)

\* the node of test_node(db).spawn(), serving the clients, and node.shutdown()
\* once the clients have their results
BlobsNodeNext ==
    \/ SelectAccept
    \/ AlpnRead(TRUE)
    \/ \E c \in ConnIds : HandleConnection(c)
    \/ \E c \in ConnIds : (Client(c).pc = "done" /\ AcceptReturn(c, Client(c).res = "Ok"))
    \/ (ClientsDone /\ ShutdownCall(1))
    \/ ShutdownReturn(1)

NextBlobs == RpcSpawnNext \/ RunNext \/ BlobsClientNext \/ BlobsServeNext \/ BlobsNodeNext

SpecBlobs == InitBlobs /\ [][NextBlobs]_vars

\* multiple_clients: the provider of a collection that is not empty
InitClients ==
    /\ InitNode
    /\ \E file_opts \in {f \in FileOpts : Len(f) > 0} :
          /\ db = MemStore(TestStore(file_opts, FALSE))
          /\ hist = [HistInit EXCEPT !.file_opts = file_opts]

\* multiple_clients: the clients dial at the same time, each with
\* GetRequest::all(hash) for the collection
ClientsNext ==
    \E c \in ConnIds :
        ClientDial(c, [kind |-> "all", hash |-> CollectionHash(hist.file_opts)])

NextClients == RpcSpawnNext \/ RunNext \/ ClientsNext \/ BlobsServeNext \/ BlobsNodeNext

SpecClients == InitClients /\ [][NextClients]_vars

(* ------------------------------ restart -------------------------------- *)
\* a blob is written to the store of the running node
BlobImport(h) ==
    /\ spawn = "returned"
    /\ db.state = "open"
    /\ h \notin db.blobs
    /\ db' = [db EXCEPT !.blobs = @ \cup {h}]
    /\ UNCHANGED <<builder, spawn, endpoint, protocols, cancel_token, run, conns, callers, gc, fanout, client, disk, hist, pkarr>>

\* the process ends after Node::shutdown has returned and a new one
\* constructs Builder::default(), with a key of its own; the directory stays
Restart ==
    /\ run.pc = "done"
    /\ callers[1] = "returned"
    /\ hist.restarts < MaxRestarts
    /\ builder' = [BuilderDefault EXCEPT !.secret_key = hist.keys + 1]
    /\ spawn' = "building"
    /\ endpoint' = EndpointUnbound
    /\ protocols' = <<>>
    /\ cancel_token' = FALSE
    /\ run' = [pc |-> "none", i |-> 0, conn |-> 0, rpc |-> "None", rpc_ready |-> 0,
               disabled |-> {}, guard |-> FALSE, eps |-> 0]
    /\ conns' = [c \in ConnIds |-> [st |-> "none", alpn |-> "", accepts |-> <<>>]]
    /\ callers' = [k \in CallerIds |-> "idle"]
    /\ gc' = [g \in GcTaskIds |-> GcIdle]
    /\ fanout' = [pc |-> "none", seen |-> 0]
    /\ db' = MemStore({})
    /\ hist' = [HistInit EXCEPT !.keys = hist.keys + 1,
                                !.nodes = hist.nodes,
                                !.atShutdown = hist.atShutdown,
                                !.restarts = hist.restarts + 1]
    /\ UNCHANGED <<client, disk, pkarr>>

\* a node on the root directory or in memory, blobs written to it, its
\* shutdown and the start of the next process
RestartNext ==
    \/ Persist
    \/ \E h \in Hashes : BlobImport(h)
    \/ ShutdownCall(1)
    \/ ShutdownReturn(1)
    \/ Restart

NextRestart == RestartNext \/ RpcSpawnNext \/ RunNext

SpecRestart == Init /\ [][NextRestart]_vars

(* ------------------- test_utils: pkarr_dns_state::State ----------------- *)
PkarrNodes == {1, 2}
Packets == 1..MaxPackets
\* HashMap::get on a node without an entry
NoPacket == 0

\* everything but the state of the test servers
nodeVars == <<builder, spawn, endpoint, protocols, cancel_token, run, conns, callers, db, gc,
              fanout, client, disk, hist>>

\* the servers' state exists
Created == DOMAIN pkarr # {}

\* State::new, lines 401-407: no packets, a Notify without waiters; w is the
\* task that calls on_node
StateNew ==
    /\ ~Created
    /\ pkarr' = [packets |-> [n \in PkarrNodes |-> NoPacket],
                 upserts |-> 0, ret |-> "None", notifications |-> 0,
                 w |-> [pc |-> "idle", node |-> 0, notified |-> FALSE, elapsed |-> FALSE,
                        late |-> FALSE, res |-> "None"]]
    /\ UNCHANGED nodeVars

\* a comparison that takes an equally recent packet for a more recent one
MoreRecentOrEqual(p, q) == p >= q

\* SignedPacket::more_recent_than at line 434: packets are numbered by recency
MoreRecentThan(p, q) == p > q

\* upsert, lines 428-441: the value of `updated` for a new packet p and the
\* entry stored (NoPacket: Entry::Vacant)
Updated(stored, p) == stored = NoPacket \/ MoreRecentThan(p, stored)

\* Notify::notify_waiters, line 443: wakes the Notified futures that exist; it
\* stores no permit for a future created later
NotifyWaiters(w) == [w EXCEPT !.notified = (w.pc = "select")]

\* State::upsert, lines 425-446
Upsert(n, p) ==
    /\ Created
    /\ pkarr.upserts < MaxUpserts
    /\ LET updated == Updated(pkarr.packets[n], p) IN
       pkarr' = [pkarr EXCEPT !.upserts = @ + 1,
                              !.packets[n] = IF updated THEN p ELSE @,
                              !.ret = IF updated THEN "Ok(true)" ELSE "Ok(false)",
                              !.notifications = IF updated THEN @ + 1 ELSE @,
                              !.w = IF updated THEN NotifyWaiters(@) ELSE @]
    /\ UNCHANGED nodeVars

\* State::on_node, lines 413-415: the call; the sleep of the timeout starts
OnNode(n) ==
    /\ Created
    /\ pkarr.w.pc = "idle"
    /\ pkarr' = [pkarr EXCEPT !.w.pc = "get", !.w.node = n]
    /\ UNCHANGED nodeVars

\* on_node, lines 416 and 422: `while self.get(node).is_none()`; Ok(()) once
\* the packet is there
OnNodeGet ==
    /\ Created
    /\ pkarr.w.pc = "get"
    /\ IF pkarr.packets[pkarr.w.node] # NoPacket
       THEN pkarr' = [pkarr EXCEPT !.w.pc = "done", !.w.res = "Ok"]
       ELSE pkarr' = [pkarr EXCEPT !.w.pc = "on_update"]
    /\ UNCHANGED nodeVars

\* on_node, line 419 and on_update, lines 409-411: select! evaluates
\* self.on_update(); from here on the Notified future exists
OnUpdate ==
    /\ Created
    /\ pkarr.w.pc = "on_update"
    /\ pkarr' = [pkarr EXCEPT !.w.pc = "select", !.w.notified = FALSE]
    /\ UNCHANGED nodeVars

\* the sleep of on_node elapses; late records whether the packet was stored
\* by then
SleepElapses ==
    /\ Created
    /\ pkarr.w.pc \in {"get", "on_update", "select"}
    /\ ~pkarr.w.elapsed
    /\ pkarr' = [pkarr EXCEPT !.w.elapsed = TRUE,
                              !.w.late = pkarr.packets[pkarr.w.node] # NoPacket]
    /\ UNCHANGED nodeVars

\* on_node, line 418: `_ = &mut timeout => bail!("timeout")`
SelectTimeout ==
    /\ Created
    /\ pkarr.w.pc = "select"
    /\ pkarr.w.elapsed
    /\ pkarr' = [pkarr EXCEPT !.w.pc = "done", !.w.res = "timeout"]
    /\ UNCHANGED nodeVars

\* on_node, line 419: `_ = self.on_update() => {}`; the loop tests again
SelectNotified ==
    /\ Created
    /\ pkarr.w.pc = "select"
    /\ pkarr.w.notified
    /\ pkarr' = [pkarr EXCEPT !.w.pc = "get", !.w.notified = FALSE]
    /\ UNCHANGED nodeVars

\* the test servers: packets put by the relay's handler while a task waits
\* in on_node
NextPkarr ==
    \/ StateNew
    \/ \E n \in PkarrNodes, p \in Packets : Upsert(n, p)
    \/ \E n \in PkarrNodes : OnNode(n)
    \/ OnNodeGet
    \/ OnUpdate
    \/ SleepElapses
    \/ SelectTimeout
    \/ SelectNotified

SpecPkarr == Init /\ [][NextPkarr]_vars

(* ------------------------------ properties ----------------------------- *)
\* the connections whose dispatch task has looked up the registry
Dispatched == {"accepting", "finished", "handler_error", "unsupported"}

\* the registrations complete: every factory has run and spawn went on
Registered == spawn \in {"waiting", "returned"}

\* C1: an inbound connection advertising an ALPN that is registered on the
\* running node is dispatched to exactly the handler stored under that ALPN:
\* that handler's accept is invoked once for it, and no other handler's.
C1_DispatchToRegisteredHandler ==
    \A c \in ConnIds :
        /\ Len(conns[c].accepts) <= 1
        /\ \A k \in 1..Len(protocols) :
              (conns[c].st \in Dispatched /\ protocols[k].alpn = conns[c].alpn)
                  => conns[c].accepts = <<protocols[k].handler>>

C1_Witness ==
    \E c \in ConnIds :
        /\ conns[c].st = "accepting"
        /\ conns[c].alpn = EXAMPLE_ALPN
        /\ conns[c].accepts = <<UserHandler(1)>>
        /\ Len(protocols) = 4

\* C2: every protocol registered with Builder::accept before spawn is
\* accepted by the running node, whatever builder methods were called between
\* the accept call and spawn: the registry holds a handler for its ALPN and
\* an inbound connection for the ALPN is passed to a handler.
C2_AcceptedProtocolsServed ==
    Registered =>
        \A k \in 1..Len(hist.registered) :
            /\ hist.registered[k].alpn \in MapKeys(protocols)
            /\ \A c \in ConnIds :
                  (conns[c].st \in Dispatched /\ conns[c].alpn = hist.registered[k].alpn)
                      => conns[c].accepts # <<>>

\* the last registration a caller made under alpn, among those spawn found
LastUserRegistration(regs, alpn) ==
    LET ks == {k \in 1..Len(regs) : regs[k].alpn = alpn}
    IN  regs[CHOOSE k \in ks : \A j \in ks : j <= k]

\* C3: the built-in registrations are applied before every user
\* registration, so the handler found in the running node's registry under a
\* built-in ALPN a user registered is the user's handler.
C3_UserReplacesBuiltin ==
    Registered =>
        \A a \in Range(PROTOCOLS) :
            (\E k \in 1..Len(hist.atSpawn) : hist.atSpawn[k].alpn = a)
                => GetAny(protocols, a) = LastUserRegistration(hist.atSpawn, a).handler

\* C4: after Node::shutdown has returned, every handler in the registry has
\* had its shutdown invoked and awaited.
C4_EveryHandlerShutDown ==
    (\E k \in CallerIds : callers[k] = "returned") =>
        LET logged == Range(hist.log)
        IN  \A j \in 1..Len(protocols) :
                /\ Event("shutdown", protocols[j].handler) \in logged
                /\ Event("shutdown_done", protocols[j].handler) \in logged

C4_Witness ==
    /\ callers[1] = "returned"
    /\ Len(protocols) = 4

\* the shutdown sequence of a registry m, in full
ShutdownSequence(m) ==
    [n \in 1..(2 * Len(m) + 3) |->
        IF n = 1 THEN Event("db_shutdown", None)
        ELSE IF n = 2 THEN Event("db_shutdown_done", None)
        ELSE IF n = 2 * Len(m) + 3 THEN Event("close", None)
        ELSE IF n % 2 = 1 THEN Event("shutdown", m[(n - 1) \div 2].handler)
        ELSE Event("shutdown_done", m[(n - 2) \div 2].handler)]

IsPrefix(s, t) == Len(s) <= Len(t) /\ \A n \in 1..Len(s) : s[n] = t[n]

\* C5: the shutdown sequence is strictly ordered: the store's shutdown
\* completes before the first handler's shutdown is invoked, the handlers are
\* shut down one at a time in registry order, each awaited before the next,
\* and the endpoint is closed only after the last handler's shutdown returned.
C5_ShutdownOrder ==
    hist.log # <<>> => IsPrefix(hist.log, ShutdownSequence(protocols))

C5_Witness ==
    /\ run.pc = "done"
    /\ Len(protocols) = 4
    /\ hist.log = ShutdownSequence(protocols)

\* C6: Node::shutdown is idempotent: a second call finds the token tripped
\* and returns once the supervisor has ended, and the supervisor's shutdown
\* sequence (store flush, handler shutdowns, endpoint close) runs only once.
C6_ShutdownIdempotent ==
    /\ \A n \in 1..Len(hist.log) : \A o \in 1..(n - 1) : hist.log[n] # hist.log[o]
    /\ \A k \in CallerIds : callers[k] # "idle" => cancel_token
    /\ \A k \in CallerIds : callers[k] = "returned" => run.pc = "done"

C6_Witness ==
    /\ callers[1] = "returned"
    /\ callers[2] = "returned"
    /\ Len(protocols) >= 3

\* the GC loops between a granted gc_start and the end of their cycle
InFlight == {g \in GcTaskIds : gc[g].pc \in {"sleep", "content_hashes", "mark", "sweep"}}

\* C7: within one GC cycle, a hash that is in the liveness set at the start
\* of the mark phase is not removed from the store by the sweep phase.
C7_LiveNotSwept == hist.liveAtMark \cap hist.removed = {}

C7_Witness ==
    /\ hist.liveAtMark # {}
    /\ hist.removed # {}
    /\ hist.liveAtMark \subseteq db.blobs

\* C8 as stated: a GC cycle that aborts in step 3, 4 or 5 removes no content.
C8_AbortedCycleRemovesNothing == hist.fatal # "none" => hist.removed = {}

\* C8, amended: a cycle that aborts in step 3 or 4 removes no content; a
\* cycle that aborts in step 5 stops sweeping at the fatal event.
C8_AbortBeforeSweepRemovesNothing ==
    /\ hist.fatal \in {"content_hashes", "mark"} => hist.removed = {}
    /\ hist.fatal # "none" => \A g \in GcTaskIds : gc[g].pc \notin {"mark", "sweep"}

C8_Witness ==
    /\ hist.fatal = "mark"
    /\ hist.liveAtMark # {}
    /\ db.blobs = Hashes

\* C9: a GC error ends the cycle, not the loop: after an aborted cycle the
\* loop is back at gc_start; the loop ends only when the store refuses
\* gc_start, and an ended loop issues no gc_start, mark or sweep again.
C9_ErrorsEndCycleNotLoop ==
    [][\A g \in GcTaskIds :
          /\ (g \in InFlight /\ hist'.aborted > hist.aborted /\ gc'[g] # gc[g])
                => gc'[g].pc = "gc_start"
          /\ (gc[g].pc # "exited" /\ gc'[g].pc = "exited")
                => (gc[g].pc = "gc_start" /\ hist'.refused)
          /\ gc[g].pc = "exited"
                => (gc'[g] = gc[g] /\ db'.blobs = db.blobs /\ hist'.cycles = hist.cycles)]_vars

C9_Witness ==
    /\ hist.aborted >= 1
    /\ hist.cycles = 2
    /\ gc[1].pc = "mark"

\* C10: at most one GC cycle is in flight: every gc_start granted so far
\* belongs to a cycle that completed or aborted, except the one in flight.
C10_OneCycleInFlight ==
    /\ Cardinality(InFlight) <= 1
    /\ hist.cycles = hist.completed + hist.aborted + Cardinality(InFlight)

C10_Witness ==
    /\ hist.cycles = 2
    /\ hist.completed = 1
    /\ gc[1].pc = "sweep"

\* C11: tripping the cancellation token ends the GC loop: once the token is
\* tripped no GC loop starts a mark phase or a sweep phase on the store.
C11_CancelEndsGcLoop ==
    [][cancel_token =>
          \A g \in GcTaskIds :
              gc'[g].pc \in {"mark", "sweep"} => gc'[g].pc = gc[g].pc]_vars

\* the GC loop tasks that were spawned
GcLoops == {g \in GcTaskIds : gc[g].pc # "none"}

\* C12: the GC loop runs if and only if the GC policy is Interval(d): a node
\* built with the default policy or with GcPolicy::Disabled has no GC loop
\* and never issues gc_start, mark or sweep on the store; a node built with
\* Interval(d) has exactly one GC loop once its tasks are spawned.
C12_GcLoopIffInterval ==
    /\ hist.policy # "Interval" =>
          /\ GcLoops = {}
          /\ hist.cycles = 0 /\ ~hist.refused
          /\ db.blobs = Hashes
    /\ hist.policy = "Interval" =>
          Cardinality(GcLoops) = (IF run.pc # "none" THEN 1 ELSE 0)

C12_Witness ==
    /\ hist.policy = "Interval"
    /\ GcLoops = {1}
    /\ gc[1].pc = "sweep"
    /\ db.blobs # Hashes

\* C13: the registry is immutable from the moment the supervisor task is
\* spawned: no step taken while the supervisor task exists inserts, replaces
\* or removes a handler.
C13_RegistryFrozen == [][run.pc # "none" => protocols' = protocols]_vars

C13_Witness ==
    /\ run.pc = "protocol_shutdown"
    /\ run.i = 1
    /\ Len(protocols) = 3
    /\ \E c \in ConnIds : conns[c].st = "accepting"

\* the registry that results from inserting the registrations regs in order
RECURSIVE InsertAll(_)
InsertAll(regs) ==
    IF regs = <<>> THEN <<>>
    ELSE LET n == Len(regs)
         IN  MapInsert(InsertAll(SubSeq(regs, 1, n - 1)), regs[n].alpn, regs[n].handler)

\* C14: startup ordering: when the supervisor task is spawned every
\* registration's factory has completed and its handler has been inserted
\* into the registry, and no inbound peer connection is accepted or
\* dispatched before the supervisor task has been spawned.
C14_StartupOrdering ==
    /\ run.pc # "none" =>
          /\ protocols = InsertAll(hist.factories)
          /\ \A k \in 1..Len(hist.factories) : hist.factories[k].alpn \in MapKeys(protocols)
    /\ \A c \in ConnIds : conns[c].st \notin {"none", "incoming"} => run.pc # "none"

C14_Witness ==
    /\ Len(hist.factories) = 5
    /\ Len(protocols) = 4
    /\ run.pc = "select"
    /\ conns[1].st = "accepting"

\* a registration made by Builder::spawn itself
IsBuiltin(r) == r.handler[1] # "User"

\* the registrations of the Builder that was spawned, in the order of their
\* accept calls: the caller's, then those Builder::spawn makes
CallOrder == hist.atSpawn \o SelectSeq(hist.factories, IsBuiltin)

\* C15: when two registrations name the same ALPN, the registry of the
\* running node holds exactly one handler under that ALPN, the one of the
\* later registration; the ALPN keys of the registry are always unique.
C15_LaterRegistrationWins ==
    /\ \A j, k \in 1..Len(protocols) : protocols[j].alpn = protocols[k].alpn => j = k
    /\ Registered =>
          \A a \in Alpns :
              (\E k \in 1..Len(CallOrder) : CallOrder[k].alpn = a) =>
                  /\ Cardinality({k \in 1..Len(protocols) : protocols[k].alpn = a}) = 1
                  /\ GetAny(protocols, a) = LastUserRegistration(CallOrder, a).handler

C15_Witness ==
    /\ Registered
    /\ Len(hist.atSpawn) = 2
    /\ hist.atSpawn[1].alpn = EXAMPLE_ALPN
    /\ hist.atSpawn[2].alpn = EXAMPLE_ALPN
    /\ GetAny(protocols, EXAMPLE_ALPN) = UserHandler(2)
    /\ Len(protocols) = 4

\* C16: a fatal startup error (the bind fails, a protocol factory returns an
\* error, or no local address is reported within the wait) is surfaced to
\* the caller of spawn: spawn has returned an error and no Node, and the blob
\* store's shutdown has been called and awaited before it returned.
C16_StartupErrorShutsStore ==
    /\ hist.failure \in {"bind", "factory", "endpoint_wait"} =>
          /\ spawn = "failed"
          /\ db.state = "shutdown"
    /\ spawn = "failed" <=> hist.failure # "none"

C16_Witness ==
    /\ hist.failure = "endpoint_wait"
    /\ spawn = "failed"
    /\ db.state = "shutdown"
    /\ Len(protocols) = 4

\* the positions of the supervisor inside its select loop
InLoop == {"select", "alpn"}

\* C17: an inbound connection whose ALPN has no entry in the registry is
\* dropped: no handler's accept is invoked for it, and the supervisor loop
\* keeps running and keeps accepting later connections and RPC requests.
C17_UnknownAlpnDropped ==
    \A c \in ConnIds :
        (conns[c].st \in Dispatched /\ conns[c].alpn \notin MapKeys(protocols)) =>
            /\ conns[c].st = "unsupported"
            /\ conns[c].accepts = <<>>
            /\ ~cancel_token => run.pc \in InLoop
            /\ (run.pc = "select" /\ ~cancel_token) =>
                  /\ (\E d \in ConnIds : conns[d].st = "incoming") => ENABLED SelectAccept
                  /\ RpcBudget => ENABLED SelectInternalRpc(TRUE)
                  /\ (RpcBudget /\ run.rpc # "Dummy") => ENABLED SelectRpc(TRUE)

C17_Witness ==
    /\ conns[1].st = "unsupported"
    /\ conns[1].alpn = DOCS_ALPN
    /\ conns[2].st = "incoming"
    /\ run.pc = "select"
    /\ run.rpc = "Quinn"
    /\ hist.rpc_handled = 1
    /\ ~cancel_token

\* C18: when a handler's accept returns an error for one connection, the
\* supervisor loop does not exit and no shutdown step runs, and the other
\* connections are dispatched to their handlers and run unaffected.
C18_HandlerErrorNotFatal ==
    [][/\ \A c \in ConnIds :
             (conns[c].st = "accepting" /\ conns'[c].st = "handler_error") =>
                 /\ run' = run
                 /\ hist'.log = hist.log
                 /\ cancel_token' = cancel_token
                 /\ \A d \in ConnIds \ {c} : conns'[d] = conns[d]
       /\ (\E c \in ConnIds : conns[c].st = "handler_error") =>
             /\ ~cancel_token => (run.pc \in InLoop /\ hist.log = <<>>)
             /\ \A d \in ConnIds :
                   (conns[d].st \in Dispatched /\ conns[d].alpn \in MapKeys(protocols))
                       => conns[d].accepts = <<GetAny(protocols, conns[d].alpn)>>]_vars

C18_Witness ==
    /\ conns[1].st = "handler_error"
    /\ conns[2].st = "finished"
    /\ run.pc = "select"
    /\ ~cancel_token

\* C19: a transport-level accept failure is not fatal: after an error from
\* the external RPC accept, from the internal RPC accept or from reading a
\* half-open connection's ALPN the supervisor is at its next select; for a
\* failed ALPN read no task is spawned and no handler's accept is invoked.
C19_AcceptErrorsNotFatal ==
    [][/\ hist'.rpc_errors > hist.rpc_errors => (run'.pc = "select" /\ hist'.log = hist.log)
       /\ hist'.internal_rpc_errors > hist.internal_rpc_errors =>
             (run'.pc = "select" /\ hist'.log = hist.log)
       /\ \A c \in ConnIds :
             /\ (conns[c].st = "connecting" /\ conns'[c].st = "invalid_handshake") =>
                   (run'.pc = "select" /\ hist'.log = hist.log)
             /\ conns[c].st = "invalid_handshake" =>
                   (conns'[c] = conns[c] /\ conns[c].accepts = <<>>)]_vars

C19_Witness ==
    /\ hist.rpc_errors = 1
    /\ hist.internal_rpc_errors = 1
    /\ conns[1].st = "invalid_handshake"
    /\ conns[2].st = "accepting"
    /\ run.pc = "select"

\* C20: cancellation is checked first on each select: a select evaluated
\* with the token tripped takes the cancellation arm even if an RPC request
\* or an inbound connection is ready, so once the token is tripped no select
\* dispatches an RPC request or accepts a peer connection.
C20_CancellationFirst ==
    [][cancel_token =>
          /\ hist'.rpc_handled = hist.rpc_handled
          /\ hist'.rpc_errors = hist.rpc_errors
          /\ hist'.internal_rpc_errors = hist.internal_rpc_errors
          /\ \A c \in ConnIds : conns[c].st = "incoming" => conns'[c].st = "incoming"
          /\ (run.pc = "select" /\ run' # run) => run'.pc = "db_shutdown"]_vars

C20_Witness ==
    /\ cancel_token
    /\ run.pc = "db_shutdown"
    /\ run.rpc = "Quinn"
    /\ RpcBudget
    /\ \E c \in ConnIds : conns[c].st = "incoming"

\* C21: RPC requests and peer connections are served fairly among
\* themselves: while the cancellation token is not tripped, an inbound peer
\* connection that is ready when the supervisor is at its select is
\* eventually accepted, even when external RPC requests keep arriving or the
\* external RPC accept keeps failing.
C21_ReadyConnectionAccepted ==
    \A c \in ConnIds :
        (conns[c].st = "incoming" /\ run.pc = "select")
            ~> (conns[c].st # "incoming" \/ cancel_token)

\* the sources of the select that have reported their end
SourcesEnded == IF endpoint.state = "closed" THEN {"accept"} ELSE {}

\* C22: the supervisor loop leaves through the all-sources-exhausted exit
\* only in a state where every source has reported its end; the end of a
\* single source, such as the endpoint's accept stream, never ends the loop
\* while the others are open.
C22_ExhaustedExitNeedsAllSources ==
    /\ hist.exit = "else" => {"rpc", "internal_rpc", "accept"} \subseteq SourcesEnded
    /\ run.disabled \subseteq {"accept"}
    /\ (run.pc \notin ({"none", "start", "initial_update"} \cup InLoop)) => hist.exit = "cancel"
    /\ "accept" \in run.disabled => (run.pc = "select" /\ hist.exit = "none")

C22_Witness ==
    /\ "accept" \in run.disabled
    /\ run.pc = "select"
    /\ hist.rpc_handled = 1
    /\ ~cancel_token
    /\ conns[1].st = "incoming"

C24_UpdatesInOrder ==
    \A j, k \in 1..Len(hist.delivered) :
        j < k => hist.delivered[j].eps <= hist.delivered[k].eps

\* the supervisor has not reached its loop
PreLoop == {"start", "initial_update", "initial_deliver"}

IsByRun(u) == u.by = "run"

\* the update_endpoints calls of the supervisor
RunDeliveries == SelectSeq(hist.delivered, IsByRun)

\* the supervisor has taken an RPC request or a peer connection
Served ==
    \/ hist.rpc_handled + hist.rpc_errors + hist.internal_rpc_errors > 0
    \/ \E c \in ConnIds : conns[c].st \notin {"none", "incoming"}

RegisteredAlpns == [k \in 1..Len(hist.atSpawn) |-> hist.atSpawn[k].alpn]

\* the positions of ALPN a in the list handed to the endpoint
Positions(a) == {k \in 1..Len(endpoint.alpns) : endpoint.alpns[k] = a}

\* C26: the ALPN list handed to the endpoint is the union of the built-in
\* and the user-registered ALPNs in insertion order: every one of them is
\* in the list, each exactly once, the built-ins first and the user ALPNs
\* in the order of their registration.
C26_AlpnsUnionInOrder ==
    endpoint.state = "bound" =>
        /\ Range(endpoint.alpns) = Range(PROTOCOLS) \cup Range(RegisteredAlpns)
        /\ \A a \in Range(endpoint.alpns) : Cardinality(Positions(a)) = 1
        /\ SubSeq(endpoint.alpns, 1, Len(PROTOCOLS)) = PROTOCOLS
        /\ \A j, k \in 1..Len(RegisteredAlpns) :
               (j < k /\ RegisteredAlpns[j] # RegisteredAlpns[k]) =>
                   \E pj \in Positions(RegisteredAlpns[j]), pk \in Positions(RegisteredAlpns[k]) : pj < pk

\* the request of transfer_data: the full collection of the provider
IsGetAll(c) ==
    /\ Client(c).kind = "all"
    /\ Client(c).hash = CollectionHash(hist.file_opts)

NoData(hash) == \A e \in db.content : e.hash = hash => ~e.complete

BeingServed(c) ==
    /\ Client(c).pc \in {"connecting", "blob"}
    /\ conns[c].st \in {"spawned", "accepting"}

\* C29: clients that dial the same provider at the same time for the same
\* collection all complete with success and receive the same names, hashes
\* and content under every interleaving of their connections; a connection
\* that is being served does not keep the supervisor from its loop, so it
\* blocks no other.
C29_ClientsIndependent ==
    /\ \A c, d \in ConnIds :
          (Client(c).pc = "done" /\ IsGetAll(c) /\ Client(d).pc = "done" /\ IsGetAll(d)) =>
              /\ Client(c).res = "Ok" /\ Client(d).res = "Ok"
              /\ Client(c).coll = Client(d).coll
              /\ Client(c).children = Client(d).children
    /\ \A c \in ConnIds : BeingServed(c) => run.pc \in InLoop

C29_Witness ==
    /\ Len(hist.file_opts[1].data) > ChunkLen
    /\ IsGetAll(1) /\ Client(1).pc = "blob" /\ Client(1).k > 0
    /\ IsGetAll(2) /\ Client(2).pc = "done" /\ Client(2).res = "Ok"

\* C30: a node spawned on a root directory, shut down and spawned again on
\* it has the identity of the first node: the secret key created by the
\* first run is loaded by the second, not generated anew; and its store
\* holds the blobs the store of the first node held at its shutdown.
C30_PersistentRestart ==
    \A i, j \in 1..Len(hist.nodes) :
        (/\ i < j
         /\ hist.nodes[i].storage = "Persistent"
         /\ hist.nodes[j].storage = "Persistent"
         /\ \A k \in (i + 1)..(j - 1) : hist.nodes[k].storage # "Persistent") =>
            /\ hist.nodes[j].node_id = hist.nodes[i].node_id
            /\ hist.nodes[j].node_id = disk.secret_key
            /\ hist.nodes[j].blobs = hist.atShutdown[i]

C30_Witness ==
    /\ Len(hist.nodes) = 2
    /\ hist.nodes[1].storage = "Persistent"
    /\ hist.nodes[2].storage = "Persistent"
    /\ hist.nodes[2].blobs # {}
    /\ spawn = "returned"

\* the registration whose factory runs next, counted in the Vec handed to
\* spawn_inner
FactoryIndex == Len(hist.factories) - Len(builder.protocols) + 1

\* the registry holds the handler of registration j
Found(j) == \E i \in 1..Len(protocols) : protocols[i].handler = hist.factories[j].handler

\* registration j is replaced by a registration between it and registration k
Overridden(j, k) ==
    \E i \in (j + 1)..(k - 1) : hist.factories[i].alpn = hist.factories[j].alpn

\* C31 as stated: the factory of the k-th registration finds in the registry
\* the handlers of all earlier registrations and none of the later ones.
C31_FindsAllEarlier ==
    spawn = "factories" =>
        \A j \in 1..Len(hist.factories) : Found(j) <=> j < FactoryIndex

\* C31: factories run one at a time in registration order, each handler
\* inserted before the next factory starts: the factory of the k-th
\* registration finds under the ALPN of every earlier registration the handler
\* of the latest earlier registration of that ALPN, and no handler of its own
\* or of a later registration.
C31_FindsEarlierNotOverridden ==
    spawn = "factories" =>
        \A j \in 1..Len(hist.factories) :
            /\ Found(j) <=> (j < FactoryIndex /\ ~Overridden(j, FactoryIndex))
            /\ Found(j) => GetAny(protocols, hist.factories[j].alpn) = hist.factories[j].handler

C31_Witness ==
    /\ spawn = "factories"
    /\ FactoryIndex = 4
    /\ Len(protocols) = 2
    /\ Len(builder.protocols) >= 1

\* the factory that runs next is the document protocol's
DocsFactoryNext ==
    /\ spawn = "factories"
    /\ builder.protocols # <<>>
    /\ builder.protocols[FactoryTurn(builder.protocols)].handler = DocsHandler

\* C32: with document support enabled, the Gossip handler is in the registry
\* under the gossip ALPN when the document protocol's factory runs, also when
\* the user registered a handler under the gossip ALPN, so the factory's
\* lookup succeeds and spawn does not fail with 'gossip not found'.
C32_GossipFoundByDocsFactory ==
    DocsFactoryNext =>
        /\ Get(protocols, GOSSIP_ALPN, "Gossip") = GossipHandler
        /\ FactoryOk(DocsHandler, protocols, TRUE)

C32_Witness ==
    /\ DocsFactoryNext
    /\ \E k \in 1..Len(hist.atSpawn) : hist.atSpawn[k].alpn = GOSSIP_ALPN

\* C33: the GC completion callback, when registered, is invoked exactly once
\* per cycle that ran mark and sweep to the end of their streams without a
\* fatal event, after the sweep stream is exhausted; never for a cycle that a
\* contribution error or a fatal mark or sweep event aborted, never after a
\* refused gc_start, and never when no callback is registered.
C33_DoneCbOncePerCompletedCycle ==
    /\ [](hist.done_cb = IF \E g \in GcTaskIds : gc[g].done_cb THEN hist.completed ELSE 0)
    /\ [][hist'.done_cb # hist.done_cb =>
            /\ hist'.done_cb = hist.done_cb + 1
            /\ hist'.completed = hist.completed + 1
            /\ hist'.aborted = hist.aborted
            /\ hist.fatal = "none"
            /\ ~hist.refused
            /\ \E g \in GcTaskIds :
                  /\ gc[g].pc = "sweep"
                  /\ gc[g].done_cb
                  /\ StoreSweepable(db, gc[g].live) = {}
                  /\ gc'[g].pc = "gc_start"]_vars

C33_Witness ==
    /\ hist.done_cb = 1
    /\ hist.completed = 1
    /\ hist.aborted = 1
    /\ hist.removed # {}

\* C34: the liveness set is scoped to one cycle: when a cycle's mark phase
\* starts, the set holds exactly the hashes the document subsystem contributed
\* in this cycle, none when there is no document subsystem, and nothing of an
\* earlier cycle's mark phase or of an aborted cycle's partial contribution.
C34_LiveScopedToCycle ==
    [][\A g \in GcTaskIds :
          (gc[g].pc = "content_hashes" /\ gc'[g].pc = "mark") =>
              \A docs \in SUBSET Hashes, got \in SUBSET Hashes, ok \in BOOLEAN :
                  GcContentHashes(g, docs, got, ok) =>
                      /\ gc'[g].live = docs
                      /\ hist'.liveAtMark = docs
                      /\ ~gc[g].ds => docs = {}]_vars

\* a second cycle at the start of its mark phase with an empty set, after a
\* first cycle that ended with every blob left in the store in its set
C34_Witness ==
    /\ hist.cycles = 2
    /\ hist.completed = 1
    /\ db.blobs # {}
    /\ \E g \in GcTaskIds : gc[g].pc = "mark" /\ gc[g].live = {}

\* C35: on_node returns Ok only once a packet of the node is stored, and
\* returns the timeout error only if no packet of the node was stored when the
\* timeout elapsed, or if the waiter had been woken and its select took the
\* timeout arm; an upsert between the waiter's lookup and its registration for
\* the notification is not missed.
C35_OnNodeSeesUpsert ==
    Created =>
        /\ pkarr.w.res = "Ok" => pkarr.packets[pkarr.w.node] # NoPacket
        /\ pkarr.w.res = "timeout" => (~pkarr.w.late \/ pkarr.w.notified)

\* C40: upsert stores the packet if and only if the node has no packet stored
\* or the new packet is more recent than the stored one; it returns true and
\* notifies the waiters exactly then and leaves the stored packet unchanged
\* otherwise, so a stored packet is never replaced by an older or an equally
\* recent one.
C40_UpsertKeepsMostRecent ==
    /\ [][\A n \in PkarrNodes, p \in Packets :
            Upsert(n, p) =>
                LET stored == pkarr.packets[n]
                    newer == stored = NoPacket \/ p > stored
                IN  /\ pkarr'.packets = [pkarr.packets EXCEPT ![n] = IF newer THEN p ELSE stored]
                    /\ pkarr'.ret = IF newer THEN "Ok(true)" ELSE "Ok(false)"
                    /\ pkarr'.notifications = pkarr.notifications + (IF newer THEN 1 ELSE 0)]_vars
    /\ [][(Created /\ Created') =>
            \A n \in PkarrNodes :
                \/ pkarr'.packets[n] = pkarr.packets[n]
                \/ pkarr.packets[n] = NoPacket
                \/ pkarr'.packets[n] > pkarr.packets[n]]_vars

\* an upsert of an equally recent or older packet was turned down after two
\* upserts that stored theirs
C40_Witness ==
    /\ Created
    /\ pkarr.ret = "Ok(false)"
    /\ pkarr.notifications = 2
    /\ \E n \in PkarrNodes : pkarr.packets[n] = MaxPackets

\* C36: while the supervisor runs, no handler's accept is invoked for an
\* inbound connection after the supervisor has invoked that handler's
\* shutdown, nor after it has called the store's shutdown: a dispatch task
\* spawned just before the cancellation does not reach a handler that has
\* been shut down.
C36_NoAcceptAfterShutdown ==
    [][\A c \in ConnIds :
          (conns[c].st = "spawned" /\ conns'[c].st = "accepting" /\ run.pc # "done") =>
              /\ Event("shutdown", conns'[c].accepts[1]) \notin Range(hist.log)
              /\ Event("db_shutdown", None) \notin Range(hist.log)]_vars

\* C37: when spawn has returned an error, nothing that spawn attempt started
\* is left running: the supervisor task, the GC loop and the fanout task are
\* stopped, and after a timeout of the wait for the first local address the
\* endpoint is closed.
C37_FailedSpawnLeavesNothing ==
    spawn = "failed" =>
        /\ run.pc \in {"none", "done"}
        /\ \A g \in GcTaskIds : gc[g].pc \in {"none", "exited"}
        /\ fanout.pc = "none"
        /\ hist.failure = "endpoint_wait" => endpoint.state = "closed"

\* C38: once the supervisor runs, every ALPN the endpoint advertises has a
\* handler in the registry, and no connection that negotiated an advertised
\* ALPN is dropped as an unsupported ALPN, whatever the builder was told,
\* disable_docs included.
C38_AdvertisedAlpnsHandled ==
    run.pc # "none" =>
        /\ \A k \in 1..Len(endpoint.alpns) : GetAny(protocols, endpoint.alpns[k]) # None
        /\ \A c \in ConnIds :
              conns[c].alpn \in Range(endpoint.alpns) => conns[c].st # "unsupported"

\* C39: once the cancellation token is tripped, the supervisor eventually
\* runs the whole shutdown sequence through closing the endpoint, provided
\* the store's and every handler's shutdown return, whatever the peers do:
\* a peer that never completes its handshake does not hold it up forever.
C39_CancellationReachesClose == cancel_token ~> run.pc = "done"

====
